---- MODULE Spec2Model ----
(***************************************************************************)
(* Session control plane of the heist simulation:                          *)
(*   - HeistController (day_20/heist_controller.py): session registry,     *)
(*     command queue, pause flags, mole game;                              *)
(*   - IntegratedAgentWithController.respond                               *)
(*     (day_20/integrated_agent_with_controller.py): one agent turn;       *)
(*   - run_agents_loop and the HTTP handlers                               *)
(*     (day_22/detection_dashboard_server_standalone.py): the background   *)
(*     turn loop and the control requests that interleave with it.         *)
(* Python dicts are functions with a growing DOMAIN, lists are sequences,  *)
(* None is the string "None", a missing "end_time" key is NoTime.          *)
(***************************************************************************)
EXTENDS Integers, Sequences, FiniteSets, TLC

VARIABLES
    active_sessions,    \* HeistController.active_sessions: session_id -> session dict
    command_queue,      \* HeistController.command_queue: session_id -> list of commands
    pause_flags,        \* HeistController.pause_flags: session_id -> bool
    game_stats,         \* HeistController.game_stats
    now,                \* the wall clock read by datetime.now()
    ret,                \* the dict returned by the last controller call
    first_evaluation,   \* history: session_id -> result of the first evaluate_detection
    paused_sends,       \* history: <<session_id, index>> of commands queued while paused
    running_sessions,   \* server global running_sessions: session_id -> bool
    loops,              \* one run_agents_loop task per started heist: its locals and position
    requests,           \* control requests in flight, one slot per HTTP client
    llm_up,             \* whether the LLM endpoint answers the agents' completion calls
    detection,          \* the analysis the server's SabotageDetector ran: inputs and result
    late_contributions  \* history: session_id -> contributions generated with the pause
                        \* flag set since the last successful pause

vars == <<active_sessions, command_queue, pause_flags, game_stats, now, ret,
          first_evaluation, paused_sends, running_sessions, loops, requests, llm_up, detection,
          late_contributions>>

----------------------------------------------------------------------------
(* Bounds of the model *)

\* commands queued per session, turn numbers passed to update_turn, clock ticks,
\* evaluate_detection calls and sabotage events per session
MaxCommands == 1
MaxTurn == 1
MaxTime == 1
MaxGames == 2
MaxEvents == 2

\* turns of one run_agents_loop (the server passes 10) and commands queued during it
NumTurns == 2
MaxLoopCommands == 2

\* commands queued in the command queue scenario
MaxQueued == 2

\* messages of the session a detection analysis is given
MaxMessages == 2

\* pause requests a heist receives while its loop is followed to its end
MaxPauses == 2

----------------------------------------------------------------------------
(* Constants of the program *)

SessionIds == {"s1", "s2"}

ConfigAgents == <<"planner", "hacker">>

AgentLists == {<<>>, <<"planner">>, <<"planner", "hacker">>}

CommandTexts == {"abort"}

HeistStatus == {"idle", "running", "paused", "completed", "failed"}

GameOutcome == {"success", "failure", "busted"}

SabotagePattern ==
    {"timing_errors", "false_info", "coordination_chaos", "subtle_delays", "wrong_tools"}

\* _init_sabotage_patterns: severity in tenths, instructions as one text per pattern
sabotage_patterns ==
    [p \in SabotagePattern |->
        CASE p = "timing_errors"      -> [instructions |-> "TIMING ERRORS", severity |-> 8]
          [] p = "false_info"         -> [instructions |-> "FALSE INFORMATION", severity |-> 9]
          [] p = "coordination_chaos" -> [instructions |-> "COORDINATION CHAOS", severity |-> 7]
          [] p = "subtle_delays"      -> [instructions |-> "SUBTLE DELAYS", severity |-> 6]
          [] p = "wrong_tools"        -> [instructions |-> "WRONG TOOLS", severity |-> 7]]

EventSeverities == {8}

NoTime == -1

Clients == {"c1", "c2"}

----------------------------------------------------------------------------
(* Helpers *)

Range(s) == {s[i] : i \in 1..Len(s)}

EmptyDict == [k \in {} |-> 0]

\* d[k] = v of a Python dict
DictSet(d, k, v) == [x \in (DOMAIN d) \cup {k} |-> IF x = k THEN v ELSE d[x]]

\* d.get(k, default)
DictGet(d, k, default) == IF k \in DOMAIN d THEN d[k] ELSE default

RECURSIVE SumSeverity(_)
SumSeverity(events) ==
    IF events = <<>> THEN 0
    ELSE events[1].severity + SumSeverity(Tail(events))

\* the dict a controller method returns; keys a method does not set are "None"/0
Result(op, sid, success, error) ==
    [op |-> op, session_id |-> sid, success |-> success, error |-> error,
     status |-> "None", outcome |-> "None", actual_mole |-> "None",
     detected_mole |-> "None", sabotage_score |-> 0, mole_selected |-> FALSE,
     sabotage_pattern |-> "None"]

NotFound(op, sid) == Result(op, sid, FALSE, "Session not found")

\* no analysis was run yet
NoAnalysis == [state |-> "none"]

NoRequest == [op |-> "none", session_id |-> "None", seen |-> "None", raced |-> FALSE,
              state |-> "idle", success |-> FALSE, error |-> "None"]

----------------------------------------------------------------------------
(* HeistController *)

Init ==
    /\ active_sessions = EmptyDict
    /\ command_queue = EmptyDict
    /\ pause_flags = EmptyDict
    /\ game_stats = [total_games |-> 0, successful_detections |-> 0,
                     failed_detections |-> 0, busted_games |-> 0]
    /\ now = 0
    /\ ret = Result("init", "None", TRUE, "None")
    /\ first_evaluation = EmptyDict
    /\ paused_sends = {}
    /\ running_sessions = EmptyDict
    /\ loops = EmptyDict
    /\ requests = [c \in Clients |-> NoRequest]
    /\ llm_up = TRUE
    /\ detection = NoAnalysis
    /\ late_contributions = EmptyDict

\* the state of the controller (everything but the server's loop and requests)
ctlvars == <<active_sessions, command_queue, pause_flags, game_stats, ret,
             first_evaluation, paused_sends>>

srvvars == <<running_sessions, loops, requests, llm_up, detection, late_contributions>>

\* datetime.now() advances between calls
Tick ==
    /\ now < MaxTime
    /\ now' = now + 1
    /\ UNCHANGED <<ctlvars, srvvars>>

\* the session dict start_session stores
NewSession(sid, agents, mole, pattern) ==
    [session_id |-> sid, status |-> "running", agents |-> agents,
     start_time |-> now, current_turn |-> 0, mole |-> mole,
     sabotage_pattern |-> pattern, detected_mole |-> "None",
     game_outcome |-> "None", sabotage_events |-> <<>>, end_time |-> NoTime]

\* start_session replacing the whole command queue dict by the new session's queue
start_session_reset_queues(sid, agents, mole, pattern) ==
    /\ active_sessions' = DictSet(active_sessions, sid, NewSession(sid, agents, mole, pattern))
    /\ command_queue' = DictSet(EmptyDict, sid, <<>>)
    /\ pause_flags' = DictSet(pause_flags, sid, FALSE)
    /\ ret' = [Result("start_session", sid, TRUE, "None") EXCEPT
                 !.mole_selected = (mole # "None"), !.sabotage_pattern = pattern]
    /\ first_evaluation' = [k \in (DOMAIN first_evaluation) \ {sid} |-> first_evaluation[k]]
    /\ paused_sends' = {p \in paused_sends : p[1] # sid}
    /\ UNCHANGED game_stats

\* the controller part of start_session, for a mole and pattern drawn by random.choice
start_session(sid, agents, mole, pattern) ==
    /\ active_sessions' = DictSet(active_sessions, sid, NewSession(sid, agents, mole, pattern))
    /\ command_queue' = DictSet(command_queue, sid, <<>>)
    /\ pause_flags' = DictSet(pause_flags, sid, FALSE)
    /\ ret' = [Result("start_session", sid, TRUE, "None") EXCEPT
                 !.mole_selected = (mole # "None"), !.sabotage_pattern = pattern]
    /\ first_evaluation' = [k \in (DOMAIN first_evaluation) \ {sid} |-> first_evaluation[k]]
    /\ paused_sends' = {p \in paused_sends : p[1] # sid}
    /\ UNCHANGED game_stats

\* a choice that is always the first agent
MoleChoicesFirst(agents) == IF Len(agents) > 0 THEN {agents[1]} ELSE {"None"}

\* get_session_status: the session dict itself, or None
get_session_status(sessions, sid) ==
    IF sid \in DOMAIN sessions THEN sessions[sid] ELSE [session_id |-> "None"]

\* get_mole_status: the dict it returns
get_mole_status(sessions, sid) ==
    IF sid \notin DOMAIN sessions THEN [success |-> FALSE, error |-> "Session not found"]
    ELSE LET session == sessions[sid]
         IN [session_id |-> sid,
             actual_mole |-> session.mole,
             detected_mole |-> session.detected_mole,
             is_correct |-> IF session.mole # "None"
                            THEN IF session.mole = session.detected_mole
                                 THEN "True" ELSE "False"
                            ELSE "None",
             game_outcome |-> session.game_outcome]

\* random.choice(agents) if len(agents) > 0 else None
MoleChoices(agents) == IF Len(agents) > 0 THEN Range(agents) ELSE {"None"}

\* random.choice(list(SabotagePattern)) if mole else None
PatternChoices(mole) == IF mole # "None" THEN SabotagePattern ELSE {"None"}

StartSession(sid, agents) ==
    /\ \E mole \in MoleChoices(agents) :
         \E pattern \in PatternChoices(mole) :
            start_session(sid, agents, mole, pattern)
    /\ UNCHANGED <<now, srvvars>>

\* pause_session without its status check
pause_session_unchecked(sid) ==
    IF sid \notin DOMAIN active_sessions
    THEN /\ ret' = NotFound("pause_session", sid)
         /\ UNCHANGED <<active_sessions, pause_flags>>
    ELSE /\ active_sessions' = [active_sessions EXCEPT ![sid].status = "paused"]
         /\ pause_flags' = DictSet(pause_flags, sid, TRUE)
         /\ ret' = [Result("pause_session", sid, TRUE, "None") EXCEPT !.status = "paused"]

pause_session(sid) ==
    IF sid \notin DOMAIN active_sessions
    THEN /\ ret' = NotFound("pause_session", sid)
         /\ UNCHANGED <<active_sessions, pause_flags>>
    ELSE IF active_sessions[sid].status # "running"
    THEN /\ ret' = Result("pause_session", sid, FALSE, "Session is not running")
         /\ UNCHANGED <<active_sessions, pause_flags>>
    ELSE /\ active_sessions' = [active_sessions EXCEPT ![sid].status = "paused"]
         /\ pause_flags' = DictSet(pause_flags, sid, TRUE)
         /\ ret' = [Result("pause_session", sid, TRUE, "None") EXCEPT !.status = "paused"]

PauseSession(sid) ==
    /\ pause_session(sid)
    /\ UNCHANGED <<command_queue, game_stats, first_evaluation, paused_sends, now, srvvars>>

\* resume_session without its status check
resume_session_unchecked(sid) ==
    IF sid \notin DOMAIN active_sessions
    THEN /\ ret' = NotFound("resume_session", sid)
         /\ UNCHANGED <<active_sessions, pause_flags>>
    ELSE /\ active_sessions' = [active_sessions EXCEPT ![sid].status = "running"]
         /\ pause_flags' = DictSet(pause_flags, sid, FALSE)
         /\ ret' = [Result("resume_session", sid, TRUE, "None") EXCEPT !.status = "running"]

resume_session(sid) ==
    IF sid \notin DOMAIN active_sessions
    THEN /\ ret' = NotFound("resume_session", sid)
         /\ UNCHANGED <<active_sessions, pause_flags>>
    ELSE IF active_sessions[sid].status # "paused"
    THEN /\ ret' = Result("resume_session", sid, FALSE, "Session is not paused")
         /\ UNCHANGED <<active_sessions, pause_flags>>
    ELSE /\ active_sessions' = [active_sessions EXCEPT ![sid].status = "running"]
         /\ pause_flags' = DictSet(pause_flags, sid, FALSE)
         /\ ret' = [Result("resume_session", sid, TRUE, "None") EXCEPT !.status = "running"]

ResumeSession(sid) ==
    /\ resume_session(sid)
    /\ UNCHANGED <<command_queue, game_stats, first_evaluation, paused_sends, now, srvvars>>

is_paused(sid) == DictGet(pause_flags, sid, FALSE)

\* send_command without its check for the session
send_command_unchecked(sid, agent, command) ==
    LET queue == DictGet(command_queue, sid, <<>>)
        command_obj == [agent |-> agent, command |-> command,
                        timestamp |-> now, executed |-> FALSE]
    IN /\ command_queue' = DictSet(command_queue, sid, Append(queue, command_obj))
       /\ paused_sends' = paused_sends
       /\ ret' = Result("send_command", sid, TRUE, "None")

send_command(sid, agent, command) ==
    IF sid \notin DOMAIN active_sessions
    THEN /\ ret' = NotFound("send_command", sid)
         /\ UNCHANGED <<command_queue, paused_sends>>
    ELSE LET queue == DictGet(command_queue, sid, <<>>)
             command_obj == [agent |-> agent, command |-> command,
                             timestamp |-> now, executed |-> FALSE]
         IN /\ command_queue' = DictSet(command_queue, sid, Append(queue, command_obj))
            /\ paused_sends' = IF is_paused(sid)
                               THEN paused_sends \cup {<<sid, Len(queue) + 1>>}
                               ELSE paused_sends
            /\ ret' = Result("send_command", sid, TRUE, "None")

SendCommand(sid, agent, command) ==
    /\ send_command(sid, agent, command)
    /\ UNCHANGED <<active_sessions, pause_flags, game_stats, first_evaluation, now, srvvars>>

\* get_pending_commands filtering by agent only, executed commands included
get_pending_commands_unfiltered(sid, agent) ==
    IF sid \notin DOMAIN command_queue THEN <<>>
    ELSE LET commands == command_queue[sid]
             all == [i \in 1..Len(commands) |-> i]
             ForAgent(i) == commands[i].agent = agent
         IN IF agent # "None" THEN SelectSeq(all, ForAgent) ELSE all

\* get_pending_commands filtering executed commands only, whatever their agent
get_pending_commands_any_agent(sid, agent) ==
    IF sid \notin DOMAIN command_queue THEN <<>>
    ELSE LET commands == command_queue[sid]
             all == [i \in 1..Len(commands) |-> i]
             Pending(i) == ~commands[i].executed
         IN IF agent # "None" THEN SelectSeq(all, Pending) ELSE all

\* get_pending_commands: the result lists references to the queued command
\* objects, here their positions in the session's queue
get_pending_commands(sid, agent) ==
    IF sid \notin DOMAIN command_queue THEN <<>>
    ELSE LET commands == command_queue[sid]
             all == [i \in 1..Len(commands) |-> i]
             ForAgent(i) == commands[i].agent = agent /\ ~commands[i].executed
         IN IF agent # "None" THEN SelectSeq(all, ForAgent) ELSE all

\* mark_command_executed: command_index is the 0-based Python index; a negative
\* index passes the range check and counts from the end of the list, and below
\* -len the list access raises IndexError before anything is written
mark_command_executed(queues, sid, command_index) ==
    IF sid \notin DOMAIN queues THEN queues
    ELSE IF command_index >= Len(queues[sid]) THEN queues
    ELSE IF command_index < 0 - Len(queues[sid]) THEN queues
    ELSE LET n == Len(queues[sid])
             pos == IF command_index >= 0 THEN command_index + 1 ELSE n + command_index + 1
         IN [queues EXCEPT ![sid][pos].executed = TRUE]

\* the call mark_command_executed(sid, command_index) and the dict it returns; the
\* IndexError of an index below -len is the error of the call.  History: ret keeps
\* the index that was passed
MarkCommandExecuted(sid, command_index) ==
    /\ command_queue' = mark_command_executed(command_queue, sid, command_index)
    /\ ret' = [command_index |-> command_index] @@
              (IF sid \notin DOMAIN command_queue
               THEN NotFound("mark_command_executed", sid)
               ELSE IF command_index >= Len(command_queue[sid])
               THEN Result("mark_command_executed", sid, FALSE, "Command index out of range")
               ELSE IF command_index < 0 - Len(command_queue[sid])
               THEN Result("mark_command_executed", sid, FALSE, "IndexError")
               ELSE Result("mark_command_executed", sid, TRUE, "None"))
    /\ UNCHANGED <<active_sessions, pause_flags, game_stats, first_evaluation, paused_sends,
                   now, srvvars>>

update_turn(sessions, sid, turn) ==
    IF sid \notin DOMAIN sessions THEN sessions
    ELSE [sessions EXCEPT ![sid].current_turn = turn]

UpdateTurn(sid, turn) ==
    /\ active_sessions' = update_turn(active_sessions, sid, turn)
    /\ ret' = IF sid \notin DOMAIN active_sessions THEN NotFound("update_turn", sid)
              ELSE Result("update_turn", sid, TRUE, "None")
    /\ UNCHANGED <<command_queue, pause_flags, game_stats, first_evaluation, paused_sends,
                   now, srvvars>>

complete_session(sid, success) ==
    IF sid \notin DOMAIN active_sessions
    THEN /\ ret' = NotFound("complete_session", sid)
         /\ UNCHANGED active_sessions
    ELSE LET status == IF success THEN "completed" ELSE "failed"
         IN /\ active_sessions' = [active_sessions EXCEPT ![sid].status = status,
                                                          ![sid].end_time = now]
            /\ ret' = [Result("complete_session", sid, TRUE, "None") EXCEPT !.status = status]

CompleteSession(sid, success) ==
    /\ complete_session(sid, success)
    /\ UNCHANGED <<command_queue, pause_flags, game_stats, first_evaluation, paused_sends,
                   now, srvvars>>

set_detected_mole(sid, agent) ==
    IF sid \notin DOMAIN active_sessions
    THEN /\ ret' = NotFound("set_detected_mole", sid)
         /\ UNCHANGED active_sessions
    ELSE /\ active_sessions' = [active_sessions EXCEPT ![sid].detected_mole = agent]
         /\ ret' = [Result("set_detected_mole", sid, TRUE, "None") EXCEPT
                      !.detected_mole = agent]

SetDetectedMole(sid, agent) ==
    /\ set_detected_mole(sid, agent)
    /\ UNCHANGED <<command_queue, pause_flags, game_stats, first_evaluation, paused_sends,
                   now, srvvars>>

record_sabotage_event(sid, event_type, severity) ==
    IF sid \notin DOMAIN active_sessions
    THEN /\ ret' = NotFound("record_sabotage_event", sid)
         /\ UNCHANGED active_sessions
    ELSE LET event == [type |-> event_type, severity |-> severity, timestamp |-> now]
         IN /\ active_sessions' =
                  [active_sessions EXCEPT ![sid].sabotage_events = Append(@, event)]
            /\ ret' = Result("record_sabotage_event", sid, TRUE, "None")

RecordSabotageEvent(sid, event_type, severity) ==
    /\ record_sabotage_event(sid, event_type, severity)
    /\ UNCHANGED <<command_queue, pause_flags, game_stats, first_evaluation, paused_sends,
                   now, srvvars>>

\* an outcome that looks at the guess only
ClassifyGuessOnly(detected_mole, actual_mole) ==
    IF detected_mole = "None" THEN "busted" ELSE "success"

\* the outcome evaluate_detection computes from the session's guess and mole
Classify(detected_mole, actual_mole) ==
    IF detected_mole = "None" THEN "busted"
    ELSE IF detected_mole = actual_mole THEN "success"
    ELSE "failure"

\* the game_stats counter evaluate_detection increments for an outcome
StatsKey(outcome) ==
    CASE outcome = "busted" -> "busted_games"
      [] outcome = "success" -> "successful_detections"
      [] outcome = "failure" -> "failed_detections"

\* evaluate_detection letting recorded sabotage events decide the outcome
evaluate_detection_scored(sid) ==
    IF sid \notin DOMAIN active_sessions
    THEN /\ ret' = NotFound("evaluate_detection", sid)
         /\ UNCHANGED <<active_sessions, game_stats, first_evaluation>>
    ELSE LET session == active_sessions[sid]
             outcome == IF SumSeverity(session.sabotage_events) > 0 THEN "failure"
                        ELSE Classify(session.detected_mole, session.mole)
             result == [Result("evaluate_detection", sid, TRUE, "None") EXCEPT
                          !.outcome = outcome,
                          !.actual_mole = session.mole,
                          !.detected_mole = session.detected_mole,
                          !.sabotage_score = SumSeverity(session.sabotage_events)]
         IN /\ active_sessions' = [active_sessions EXCEPT ![sid].game_outcome = outcome]
            /\ game_stats' = [game_stats EXCEPT ![StatsKey(outcome)] = @ + 1,
                                                !.total_games = @ + 1]
            /\ ret' = result
            /\ first_evaluation' = IF sid \in DOMAIN first_evaluation THEN first_evaluation
                                   ELSE DictSet(first_evaluation, sid, result)

evaluate_detection(sid) ==
    IF sid \notin DOMAIN active_sessions
    THEN /\ ret' = NotFound("evaluate_detection", sid)
         /\ UNCHANGED <<active_sessions, game_stats, first_evaluation>>
    ELSE LET session == active_sessions[sid]
             outcome == Classify(session.detected_mole, session.mole)
             result == [Result("evaluate_detection", sid, TRUE, "None") EXCEPT
                          !.outcome = outcome,
                          !.actual_mole = session.mole,
                          !.detected_mole = session.detected_mole,
                          !.sabotage_score = SumSeverity(session.sabotage_events)]
         IN /\ active_sessions' = [active_sessions EXCEPT ![sid].game_outcome = outcome]
            /\ game_stats' = [game_stats EXCEPT ![StatsKey(outcome)] = @ + 1,
                                                !.total_games = @ + 1]
            /\ ret' = result
            /\ first_evaluation' = IF sid \in DOMAIN first_evaluation THEN first_evaluation
                                   ELSE DictSet(first_evaluation, sid, result)

EvaluateDetection(sid) ==
    /\ evaluate_detection(sid)
    /\ UNCHANGED <<command_queue, pause_flags, paused_sends, now, srvvars>>

----------------------------------------------------------------------------
(* IntegratedAgentWithController.respond *)

\* get_sabotage_instructions without its mole check
get_sabotage_instructions_any_agent(sid, agent) ==
    IF sid \notin DOMAIN active_sessions THEN "None"
    ELSE IF active_sessions[sid].sabotage_pattern = "None" THEN "None"
    ELSE sabotage_patterns[active_sessions[sid].sabotage_pattern].instructions

get_sabotage_instructions(sid, agent) ==
    IF sid \notin DOMAIN active_sessions THEN "None"
    ELSE IF active_sessions[sid].mole # agent THEN "None"
    ELSE IF active_sessions[sid].sabotage_pattern = "None" THEN "None"
    ELSE sabotage_patterns[active_sessions[sid].sabotage_pattern].instructions

\* the call get_sabotage_instructions(sid, agent): it writes nothing.  History: ret
\* keeps the agent asked for and the text returned
GetSabotageInstructions(sid, agent) ==
    /\ ret' = [agent |-> agent, instructions |-> get_sabotage_instructions(sid, agent)] @@
              Result("get_sabotage_instructions", sid, TRUE, "None")
    /\ UNCHANGED <<active_sessions, command_queue, pause_flags, game_stats,
                   first_evaluation, paused_sends, now, srvvars>>

\* the sabotage instructions respond puts into the context of this call
InjectedInstructions(sid, agent, injected) ==
    IF agent \in injected THEN "None" ELSE get_sabotage_instructions(sid, agent)

\* respond taking the last pending command instead of pending[0]
InjectedCommandLast(sid, agent) ==
    LET pending == get_pending_commands(sid, agent)
    IN IF Len(pending) > 0 THEN pending[Len(pending)] ELSE 0

\* the queue position (1-based) of the command respond injects, 0 when none is pending
InjectedCommand(sid, agent) ==
    LET pending == get_pending_commands(sid, agent)
    IN IF Len(pending) > 0 THEN pending[1] ELSE 0

\* IntegratedAgent.respond: the text of the completion, or the error text it
\* returns when the completion call raises
BaseResponse == IF llm_up THEN "generated" ELSE "error"

\* the LLM endpoint goes down or comes back
LLMFails ==
    /\ llm_up
    /\ llm_up' = FALSE
    /\ UNCHANGED <<ctlvars, now, running_sessions, loops, requests, detection, late_contributions>>

LLMRecovers ==
    /\ ~llm_up
    /\ llm_up' = TRUE
    /\ UNCHANGED <<ctlvars, now, running_sessions, loops, requests, detection, late_contributions>>

\* the message respond returns: the pause notice, or the text the base agent returns
\* for the context (generated text, or its error text when generation fails), told
\* by what was injected into that context
Response(sid, agent, turn, injected) ==
    IF is_paused(sid)
    THEN [agent |-> agent, turn |-> turn, message |-> "[PAUSED]",
          command |-> 0, instructions |-> "None"]
    ELSE [agent |-> agent, turn |-> turn, message |-> BaseResponse,
          command |-> InjectedCommand(sid, agent),
          instructions |-> InjectedInstructions(sid, agent, injected)]

\* respond without its pause check
respond_while_paused(sid, agent, turn) ==
    LET k == InjectedCommand(sid, agent)
    IN /\ command_queue' = IF k > 0 THEN mark_command_executed(command_queue, sid, k - 1)
                           ELSE command_queue
       /\ active_sessions' = update_turn(active_sessions, sid, turn)

\* respond's writes to the controller: mark the injected command, update the turn
respond(sid, agent, turn) ==
    IF is_paused(sid)
    THEN UNCHANGED <<active_sessions, command_queue>>
    ELSE LET k == InjectedCommand(sid, agent)
         IN /\ command_queue' = IF k > 0 THEN mark_command_executed(command_queue, sid, k - 1)
                                ELSE command_queue
            /\ active_sessions' = update_turn(active_sessions, sid, turn)

\* respond never setting _mole_instructions_injected
InjectedAfterNever(sid, agent, injected) == injected

\* agent._mole_instructions_injected after the call
InjectedAfter(sid, agent, injected) ==
    IF ~is_paused(sid) /\ InjectedInstructions(sid, agent, injected) # "None"
    THEN injected \cup {agent}
    ELSE injected

----------------------------------------------------------------------------
(* run_agents_loop and the heist handlers of the dashboard server.  The loop  *)
(* is one asyncio task: it runs undisturbed from one await to the next, and  *)
(* every handler runs between two of them.                                   *)

\* loops[sid].pc is where the task stands: "scheduled" before it first runs, at an
\* await ("pause_wait", "broadcast", "agent_delay", "turn_delay"), or "done"

IsRunning(sid) == DictGet(running_sessions, sid, FALSE)

\* the agents run_agents_loop creates: the configured agents named in the request
LoopAgents(agent_names) == SelectSeq(ConfigAgents, LAMBDA a : a \in Range(agent_names))

NewLoop(agent_names) ==
    [pc |-> "scheduled", turn |-> 0, idx |-> 0, agents |-> LoopAgents(agent_names),
     injected |-> {}, conversation_context |-> <<>>]

\* start_heist: start_session, then the loop is added as a background task
StartHeist(sid, agents) ==
    /\ \E mole \in MoleChoices(agents) :
         \E pattern \in PatternChoices(mole) :
            start_session(sid, agents, mole, pattern)
    /\ loops' = DictSet(loops, sid, NewLoop(agents))
    /\ UNCHANGED <<now, running_sessions, requests, llm_up, detection, late_contributions>>

\* stop_heist
StopHeist(sid) ==
    /\ running_sessions' = DictSet(running_sessions, sid, FALSE)
    /\ UNCHANGED <<ctlvars, now, loops, requests, llm_up, detection, late_contributions>>

\* the loop is left (for loop exhausted, or break): running_sessions[sid] = False
Finish(sid) ==
    /\ loops' = [loops EXCEPT ![sid].pc = "done"]
    /\ running_sessions' = DictSet(running_sessions, sid, FALSE)
    /\ UNCHANGED <<active_sessions, command_queue>>

\* the delay between turns: left at once when stopped, else the task sleeps
EnterTurnDelay(sid, running) ==
    IF ~running THEN Finish(sid)
    ELSE /\ loops' = [loops EXCEPT ![sid].pc = "turn_delay",
                                   ![sid].idx = Len(loops[sid].agents)]
         /\ UNCHANGED <<active_sessions, command_queue, running_sessions>>

\* the agent loop leaving the whole run when an agent returns the error text
AgentTurnAbortOnError(sid, turn, i, running) ==
    IF ~running \/ (~is_paused(sid) /\ ~llm_up) THEN Finish(sid)
    ELSE LET loop == loops[sid]
             agent == loop.agents[i]
             response == Response(sid, agent, turn, loop.injected)
             paused == response.message = "[PAUSED]"
         IN /\ respond(sid, agent, turn)
            /\ loops' = [loops EXCEPT
                   ![sid].pc = IF paused THEN "agent_delay" ELSE "broadcast",
                   ![sid].turn = turn,
                   ![sid].idx = i,
                   ![sid].injected = InjectedAfter(sid, agent, loop.injected),
                   ![sid].conversation_context =
                       IF paused THEN @ ELSE Append(@, response)]
            /\ UNCHANGED running_sessions

\* one iteration of "for agent in agents": the stop check, agent.respond, and the
\* append to conversation_context unless the response is the pause notice
AgentTurn(sid, turn, i, running) ==
    IF ~running THEN Finish(sid)
    ELSE LET loop == loops[sid]
             agent == loop.agents[i]
             response == Response(sid, agent, turn, loop.injected)
             paused == response.message = "[PAUSED]"
         IN /\ respond(sid, agent, turn)
            /\ loops' = [loops EXCEPT
                   ![sid].pc = IF paused THEN "agent_delay" ELSE "broadcast",
                   ![sid].turn = turn,
                   ![sid].idx = i,
                   ![sid].injected = InjectedAfter(sid, agent, loop.injected),
                   ![sid].conversation_context =
                       IF paused THEN @ ELSE Append(@, response)]
            /\ UNCHANGED running_sessions

\* the next iteration of the agent loop, or the end of the turn
EnterAgent(sid, turn, i, running) ==
    IF i > Len(loops[sid].agents) THEN EnterTurnDelay(sid, running)
    ELSE AgentTurn(sid, turn, i, running)

\* one iteration of "for turn in range(1, num_turns + 1)" up to its first await
EnterTurn(sid, turn, running) ==
    IF turn > NumTurns \/ ~running THEN Finish(sid)
    ELSE IF is_paused(sid)
    THEN /\ loops' = [loops EXCEPT ![sid].pc = "pause_wait", ![sid].turn = turn,
                                   ![sid].idx = 0]
         /\ UNCHANGED <<active_sessions, command_queue, running_sessions>>
    ELSE EnterAgent(sid, turn, 1, running)

LoopAt(sid, pc) == sid \in DOMAIN loops /\ loops[sid].pc = pc

loopframe == <<pause_flags, game_stats, now, ret, first_evaluation, paused_sends, requests,
              llm_up, detection, late_contributions>>

\* the background task starts: set-up, running_sessions[sid] = True, first turn
LoopStart(sid) ==
    /\ LoopAt(sid, "scheduled")
    /\ IF loops[sid].agents = <<>>
       THEN /\ loops' = [loops EXCEPT ![sid].pc = "done"]
            /\ UNCHANGED <<active_sessions, command_queue, running_sessions>>
       ELSE IF is_paused(sid)
       THEN /\ loops' = [loops EXCEPT ![sid].pc = "pause_wait", ![sid].turn = 1]
            /\ running_sessions' = DictSet(running_sessions, sid, TRUE)
            /\ UNCHANGED <<active_sessions, command_queue>>
       ELSE LET loop == loops[sid]
                agent == loop.agents[1]
                response == Response(sid, agent, 1, loop.injected)
            IN /\ running_sessions' = DictSet(running_sessions, sid, TRUE)
               /\ respond(sid, agent, 1)
               /\ loops' = [loops EXCEPT
                      ![sid].pc = "broadcast",
                      ![sid].turn = 1,
                      ![sid].idx = 1,
                      ![sid].injected = InjectedAfter(sid, agent, loop.injected),
                      ![sid].conversation_context = Append(@, response)]
    /\ UNCHANGED loopframe

\* a pause wait that is left only when the heist is stopped
WakePauseWaitStopOnly(sid) ==
    /\ LoopAt(sid, "pause_wait")
    /\ ~IsRunning(sid)
    /\ Finish(sid)
    /\ UNCHANGED loopframe

\* "while controller.is_paused(session_id)" after a sleep: left when resumed or stopped
WakePauseWait(sid) ==
    /\ LoopAt(sid, "pause_wait")
    /\ ~is_paused(sid) \/ ~IsRunning(sid)
    /\ IF ~IsRunning(sid) THEN Finish(sid)
       ELSE EnterAgent(sid, loops[sid].turn, 1, TRUE)
    /\ UNCHANGED loopframe

\* manager.broadcast returned: the delay between agents begins
WakeBroadcast(sid) ==
    /\ LoopAt(sid, "broadcast")
    /\ IF ~IsRunning(sid) THEN Finish(sid)
       ELSE /\ loops' = [loops EXCEPT ![sid].pc = "agent_delay"]
            /\ UNCHANGED <<active_sessions, command_queue, running_sessions>>
    /\ UNCHANGED loopframe

\* the delay between agents is over: the next agent, or the end of the turn
WakeAgentDelay(sid) ==
    /\ LoopAt(sid, "agent_delay")
    /\ EnterAgent(sid, loops[sid].turn, loops[sid].idx + 1, IsRunning(sid))
    /\ UNCHANGED loopframe

\* the delay between turns is over: the next turn, or the end of the loop
WakeTurnDelay(sid) ==
    /\ LoopAt(sid, "turn_delay")
    /\ EnterTurn(sid, loops[sid].turn + 1, IsRunning(sid))
    /\ UNCHANGED loopframe

\* the next step of the task: its start, or its wake-up from an await
LoopStep(sid) ==
    \/ LoopStart(sid)
    \/ WakePauseWait(sid)
    \/ WakeBroadcast(sid)
    \/ WakeAgentDelay(sid)
    \/ WakeTurnDelay(sid)

----------------------------------------------------------------------------
(* run_heist_session of day_20/test_live_control.py: the same turns run in a  *)
(* thread of their own, with time.sleep for the delays.  The controller is    *)
(* called from other threads while the thread sleeps and while it waits for   *)
(* the completion in super().respond; respond up to that call is one step.    *)

NoResponse == [agent |-> "None", turn |-> 0, message |-> "None", command |-> 0,
               instructions |-> "None"]

LateContributions(sid) == DictGet(late_contributions, sid, 0)

liveframe == <<pause_flags, game_stats, now, ret, first_evaluation, paused_sends,
               running_sessions, requests, llm_up, detection>>

\* start_session, then the first turn
LiveStart(sid, agents) ==
    /\ \E mole \in MoleChoices(agents) :
         \E pattern \in PatternChoices(mole) :
            start_session(sid, agents, mole, pattern)
    /\ loops' = DictSet(loops, sid,
                        [inflight |-> NoResponse] @@
                        [NewLoop(agents) EXCEPT !.pc = "turn_start", !.turn = 1])
    /\ UNCHANGED <<now, running_sessions, requests, llm_up, detection, late_contributions>>

\* "for turn in range(1, max_turns + 1)": the end, or the wait while paused
LiveTurnStart(sid) ==
    /\ LoopAt(sid, "turn_start")
    /\ loops[sid].turn > NumTurns \/ ~is_paused(sid)
    /\ loops' = [loops EXCEPT ![sid].pc = IF loops[sid].turn > NumTurns THEN "done"
                                          ELSE "respond",
                              ![sid].idx = IF loops[sid].turn > NumTurns THEN @ ELSE 1]
    /\ UNCHANGED <<active_sessions, command_queue, late_contributions, liveframe>>

\* agent.respond entered without its pause check
LiveRespondUnchecked(sid) ==
    /\ LoopAt(sid, "respond")
    /\ LET loop == loops[sid]
           agent == loop.agents[loop.idx]
           k == InjectedCommand(sid, agent)
       IN /\ command_queue' = IF k > 0 THEN mark_command_executed(command_queue, sid, k - 1)
                              ELSE command_queue
          /\ active_sessions' = update_turn(active_sessions, sid, loop.turn)
          /\ loops' = [loops EXCEPT
                 ![sid].pc = "generating",
                 ![sid].injected = InjectedAfter(sid, agent, loop.injected),
                 ![sid].inflight =
                     [agent |-> agent, turn |-> loop.turn, message |-> "None",
                      command |-> k,
                      instructions |-> InjectedInstructions(sid, agent, loop.injected)]]
    /\ UNCHANGED <<late_contributions, liveframe>>

\* agent.respond up to the completion call: the pause notice is returned and
\* appended at once, else the controller is read and written and the call begins
LiveRespond(sid) ==
    /\ LoopAt(sid, "respond")
    /\ LET loop == loops[sid]
           agent == loop.agents[loop.idx]
           response == Response(sid, agent, loop.turn, loop.injected)
       IN /\ respond(sid, agent, loop.turn)
          /\ loops' = [loops EXCEPT
                 ![sid].pc = IF is_paused(sid) THEN "agent_delay" ELSE "generating",
                 ![sid].injected = InjectedAfter(sid, agent, loop.injected),
                 ![sid].inflight = IF is_paused(sid) THEN @ ELSE response,
                 ![sid].conversation_context =
                     IF is_paused(sid) THEN Append(@, response) ELSE @]
    /\ UNCHANGED <<late_contributions, liveframe>>

\* the completion returns: the generated text is appended
LiveGenerate(sid) ==
    /\ LoopAt(sid, "generating")
    /\ loops' = [loops EXCEPT
           ![sid].pc = "agent_delay",
           ![sid].inflight = NoResponse,
           ![sid].conversation_context =
               Append(@, [loops[sid].inflight EXCEPT !.message = BaseResponse])]
    /\ late_contributions' =
           IF is_paused(sid) THEN DictSet(late_contributions, sid, LateContributions(sid) + 1)
           ELSE late_contributions
    /\ UNCHANGED <<active_sessions, command_queue, liveframe>>

\* time.sleep(1) is over: the next agent, or the delay between turns
LiveAgentDelay(sid) ==
    /\ LoopAt(sid, "agent_delay")
    /\ loops' = IF loops[sid].idx < Len(loops[sid].agents)
                THEN [loops EXCEPT ![sid].pc = "respond", ![sid].idx = @ + 1]
                ELSE [loops EXCEPT ![sid].pc = "turn_delay"]
    /\ UNCHANGED <<active_sessions, command_queue, late_contributions, liveframe>>

\* time.sleep(2) is over: the next turn
LiveTurnDelay(sid) ==
    /\ LoopAt(sid, "turn_delay")
    /\ loops' = [loops EXCEPT ![sid].pc = "turn_start", ![sid].turn = @ + 1]
    /\ UNCHANGED <<active_sessions, command_queue, late_contributions, liveframe>>

\* respond's delivery of a pending command, step by step, send_command being
\* called from another thread in between.  The locals of respond are kept in the
\* loop: pending, command (pending[0]) and the idx at which it is found
NoCommand == [agent |-> "None", command |-> "None", timestamp |-> NoTime, executed |-> FALSE]

DeliverStart(sid, agents) ==
    /\ \E mole \in MoleChoices(agents) :
         \E pattern \in PatternChoices(mole) :
            start_session(sid, agents, mole, pattern)
    /\ loops' = DictSet(loops, sid,
                        [inflight |-> NoResponse, pending |-> <<>>, command |-> NoCommand,
                         found |-> 0 - 1] @@
                        [NewLoop(agents) EXCEPT !.pc = "turn_start", !.turn = 1])
    /\ UNCHANGED <<now, running_sessions, requests, llm_up, detection, late_contributions>>

\* the pause check, the mole's instructions and get_pending_commands
DeliverFetch(sid) ==
    /\ LoopAt(sid, "respond")
    /\ LET loop == loops[sid]
           agent == loop.agents[loop.idx]
           response == Response(sid, agent, loop.turn, loop.injected)
           pending == get_pending_commands(sid, agent)
       IN IF is_paused(sid)
          THEN /\ loops' = [loops EXCEPT ![sid].pc = "agent_delay",
                                         ![sid].conversation_context = Append(@, response)]
               /\ UNCHANGED active_sessions
          ELSE /\ loops' = [loops EXCEPT
                      ![sid].pc = IF Len(pending) > 0 THEN "find" ELSE "generating",
                      ![sid].injected = InjectedAfter(sid, agent, loop.injected),
                      ![sid].inflight = response,
                      ![sid].pending = pending,
                      ![sid].command = IF Len(pending) > 0
                                       THEN command_queue[sid][pending[1]] ELSE NoCommand,
                      ![sid].found = 0 - 1]
               /\ active_sessions' = IF Len(pending) > 0 THEN active_sessions
                                     ELSE update_turn(active_sessions, sid, loop.turn)
    /\ UNCHANGED <<command_queue, late_contributions, liveframe>>

\* a search that takes the last command of the queue for the one injected
DeliverFindLast(sid) ==
    /\ LoopAt(sid, "find")
    /\ loops' = [loops EXCEPT ![sid].pc = "mark",
                              ![sid].found = Len(command_queue[sid]) - 1]
    /\ UNCHANGED <<active_sessions, command_queue, late_contributions, liveframe>>

\* "for idx, cmd in enumerate(all_commands): if cmd is command": the command is
\* looked up in the queue as it is now.  A command object is told from the
\* others by its content: the head of pending is the first command of its agent
\* that is not executed, so no earlier object of the queue has the same content
DeliverFind(sid) ==
    /\ LoopAt(sid, "find")
    /\ LET all_commands == command_queue[sid]
           hits == {i \in 1..Len(all_commands) : all_commands[i] = loops[sid].command}
       IN loops' = [loops EXCEPT
              ![sid].pc = "mark",
              ![sid].found = IF hits = {} THEN 0 - 1
                             ELSE (CHOOSE i \in hits : \A j \in hits : i <= j) - 1]
    /\ UNCHANGED <<active_sessions, command_queue, late_contributions, liveframe>>

\* mark_command_executed(session_id, idx) when the command was found, then update_turn
DeliverMark(sid) ==
    /\ LoopAt(sid, "mark")
    /\ command_queue' = IF loops[sid].found >= 0
                        THEN mark_command_executed(command_queue, sid, loops[sid].found)
                        ELSE command_queue
    /\ active_sessions' = update_turn(active_sessions, sid, loops[sid].turn)
    /\ loops' = [loops EXCEPT ![sid].pc = "generating"]
    /\ UNCHANGED <<late_contributions, liveframe>>

\* pause_session called from another thread.  History: a successful pause
\* starts the count of contributions generated with the flag set
LivePause(sid) ==
    /\ pause_session(sid)
    /\ late_contributions' =
           IF sid \in DOMAIN active_sessions /\ active_sessions[sid].status = "running"
           THEN DictSet(late_contributions, sid, 0)
           ELSE late_contributions
    /\ UNCHANGED <<command_queue, game_stats, first_evaluation, paused_sends, now,
                   running_sessions, loops, requests, llm_up, detection>>

----------------------------------------------------------------------------
(* Control requests in flight.  pause_heist and resume_heist are coroutines   *)
(* of the one event loop: each runs the controller call without an await in  *)
(* it, so requests that are in flight together are handled one after the     *)
(* other, in either order.                                                   *)

StatusIn(sessions, sid) == IF sid \in DOMAIN sessions THEN sessions[sid].status ELSE "idle"

OtherClient(c) == CHOOSE d \in Clients : d # c

\* a client sends a pause or resume request; history: the status it was sent at
\* and whether the other client's request is in flight with it
IssueRequest(c, op, sid) ==
    /\ requests[c].state = "idle"
    /\ LET raced == requests[OtherClient(c)].state = "pending"
       IN requests' = [d \in Clients |->
            IF d = c
            THEN [op |-> op, session_id |-> sid, seen |-> StatusIn(active_sessions, sid),
                  raced |-> raced, state |-> "pending", success |-> FALSE, error |-> "None"]
            ELSE [requests[d] EXCEPT !.raced = raced]]
    /\ UNCHANGED <<ctlvars, now, running_sessions, loops, llm_up, detection, late_contributions>>

\* pause_heist / resume_heist: the handler runs the controller call
HandleRequest(c) ==
    /\ requests[c].state = "pending"
    /\ IF requests[c].op = "pause_session"
       THEN pause_session(requests[c].session_id)
       ELSE resume_session(requests[c].session_id)
    /\ requests' = [requests EXCEPT ![c].state = "done",
                                    ![c].success = ret'.success,
                                    ![c].error = ret'.error]
    /\ UNCHANGED <<command_queue, game_stats, first_evaluation, paused_sends, now,
                   running_sessions, loops, llm_up, detection, late_contributions>>

\* the response is delivered; the client may send its next request
ReplyRequest(c) ==
    /\ requests[c].state = "done"
    /\ requests' = [d \in Clients |->
            IF d = c THEN NoRequest ELSE [requests[d] EXCEPT !.raced = FALSE]]
    /\ UNCHANGED <<ctlvars, now, running_sessions, loops, llm_up, detection, late_contributions>>

----------------------------------------------------------------------------
(* SabotageDetector (day_22/sabotage_detector_standalone.py).  Scores are    *)
(* fixed-point numbers in thousandths (1000 is 1.0), rounded down at each     *)
(* division; the length deviation of a message is kept to two decimals.  A    *)
(* message is told by its author and its text; what the analyses read of a    *)
(* text is its length and the number of keywords of each list it contains.    *)

One == 1000

\* self.weights, self.rule_weight, self.llm_weight
weights == [tool_usage_anomaly |-> 250, timing_inconsistency |-> 300,
            message_anomaly |-> 200, information_quality |-> 250]

rule_weight == 600

llm_weight == 400

\* len(text) and the keywords of timing_keywords, contradiction_keywords,
\* hesitation_markers, concrete_keywords and vague_keywords found in text.lower()
TextFeatures(text) ==
    CASE text = "ok" ->
           [length |-> 2, timing |-> 0, contradiction |-> 0, hesitation |-> 0,
            concrete |-> 0, vague |-> 0]
      [] text = "hmm wait" ->
           [length |-> 8, timing |-> 1, contradiction |-> 1, hesitation |-> 2,
            concrete |-> 0, vague |-> 0]
      [] text = "maybe vault" ->
           [length |-> 11, timing |-> 0, contradiction |-> 0, hesitation |-> 0,
            concrete |-> 1, vague |-> 1]
      [] text = "maybe" ->
           [length |-> 5, timing |-> 0, contradiction |-> 0, hesitation |-> 0,
            concrete |-> 0, vague |-> 1]
      [] text = "maybe wait" ->
           [length |-> 10, timing |-> 1, contradiction |-> 1, hesitation |-> 1,
            concrete |-> 0, vague |-> 1]
      [] text = "maybe probably might perhaps" ->
           [length |-> 28, timing |-> 0, contradiction |-> 0, hesitation |-> 0,
            concrete |-> 0, vague |-> 4]

MessageTexts == {"ok", "hmm wait", "maybe vault"}

\* the message lists an analysis is given: up to MaxMessages messages
MessageLists ==
    UNION {[1..n -> [agent_name : Range(ConfigAgents), message : MessageTexts]] :
              n \in 0..MaxMessages}

\* the tool usage records an analysis is given
ToolUsageLists ==
    {<<>>,
     <<[agent |-> "planner", tool_name |-> "calculator", success |-> TRUE],
       [agent |-> "hacker", tool_name |-> "file_reader", success |-> FALSE]>>,
     <<[agent |-> "hacker", tool_name |-> "file_reader", success |-> TRUE],
       [agent |-> "hacker", tool_name |-> "file_reader", success |-> FALSE],
       [agent |-> "planner", tool_name |-> "calculator", success |-> TRUE]>>}

\* what the completion call of _get_llm_scores yields: it raises ("failed"), its
\* text is no JSON object of numbers ("unparsable"), or a score per agent
LLMOutputs ==
    {[outcome |-> "failed"], [outcome |-> "unparsable"]}
    \cup {[outcome |-> "scores", scores |-> f] :
             f \in [Range(ConfigAgents) -> {0 - 200, 700, 1500}]}

LLMUnavailable(llm_output) == llm_output.outcome \in {"failed", "unparsable"}

\* dict.values()
Range2(f) == {f[x] : x \in DOMAIN f}

Min2(a, b) == IF a <= b THEN a ELSE b

Max2(a, b) == IF a >= b THEN a ELSE b

MaxOf(S) == CHOOSE x \in S : \A y \in S : y <= x

RECURSIVE SumOf(_, _)
SumOf(f, S) ==
    IF S = {} THEN 0
    ELSE LET x == CHOOSE y \in S : TRUE IN f[x] + SumOf(f, S \ {x})

\* math.sqrt rounded down, for arguments below 10000
ISqrt(n) == CHOOSE k \in 0..99 : k * k <= n /\ n < (k + 1) * (k + 1)

\* the agents that wrote messages, and the positions of an agent's messages
Authors(messages) == {messages[i].agent_name : i \in DOMAIN messages}

MessagesOf(messages, agent) == {i \in DOMAIN messages : messages[i].agent_name = agent}

\* the sum of a feature over the messages of an agent
FeatureOf(messages, agent, feature) ==
    SumOf([i \in DOMAIN messages |-> TextFeatures(messages[i].message)[feature]],
          MessagesOf(messages, agent))

\* scores.get(agent, 0.0)
ScoreGet(scores, agent) == IF agent \in DOMAIN scores THEN scores[agent] ELSE 0

ToolAgents(tool_usage) == {tool_usage[i].agent : i \in DOMAIN tool_usage}

\* successes / len(tools) of an agent
SuccessRate(tool_usage, agent) ==
    LET tools == {i \in DOMAIN tool_usage : tool_usage[i].agent = agent}
        successes == {i \in tools : tool_usage[i].success}
    IN (One * Cardinality(successes)) \div Cardinality(tools)

_analyze_tool_usage(tool_usage, agents) ==
    IF tool_usage = <<>> THEN [agent \in Range(agents) |-> 0]
    ELSE LET users == ToolAgents(tool_usage)
             rates == [agent \in users |-> SuccessRate(tool_usage, agent)]
             avg_success_rate == SumOf(rates, users) \div Cardinality(users)
             below == {agent \in users : rates[agent] < avg_success_rate}
         IN [agent \in Range(agents) \cup below |->
               IF agent \in below
               THEN Min2(((avg_success_rate - rates[agent]) * 1500)
                            \div avg_success_rate, One)
               ELSE 0]

_analyze_timing_patterns(messages, agents) ==
    LET writers == Authors(messages)
        timing == [agent \in writers |-> FeatureOf(messages, agent, "timing")]
        contradictions == [agent \in writers |-> FeatureOf(messages, agent, "contradiction")]
        max_timing == IF writers # {} THEN MaxOf(Range2(timing)) ELSE 1
        max_contradictions == IF writers # {} THEN MaxOf(Range2(contradictions)) ELSE 1
    IN [agent \in Range(agents) |->
          LET timing_ratio == IF max_timing > 0
                              THEN (One * ScoreGet(timing, agent)) \div max_timing ELSE 0
              contradiction_ratio == IF max_contradictions > 0
                                     THEN (One * ScoreGet(contradictions, agent))
                                             \div max_contradictions
                                     ELSE 0
          IN (timing_ratio * 500 + contradiction_ratio * 500) \div One]

\* the variance of the message lengths times the square of their number:
\* std_dev > 0 exactly when it is positive
LengthSpread(messages) ==
    LET n == Len(messages)
        lengths == [i \in DOMAIN messages |-> TextFeatures(messages[i].message).length]
        squares == [i \in DOMAIN messages |-> lengths[i] * lengths[i]]
        total == SumOf(lengths, DOMAIN messages)
    IN n * SumOf(squares, DOMAIN messages) - total * total

\* min(deviation / 2.0, 1.0) for an agent, deviation its distance from the
\* average message length in standard deviations
LengthDeviationScore(messages, agent) ==
    LET n == Len(messages)
        lengths == [i \in DOMAIN messages |-> TextFeatures(messages[i].message).length]
        total == SumOf(lengths, DOMAIN messages)
        own == MessagesOf(messages, agent)
        diff == SumOf(lengths, own) * n - total * Cardinality(own)
        dist == IF diff >= 0 THEN diff ELSE 0 - diff
        scale == 4 * Cardinality(own) * Cardinality(own) * LengthSpread(messages)
    IN IF dist * dist >= scale THEN One
       ELSE 10 * ISqrt((dist * dist * 10000) \div scale)

\* scores[agent] is read for every author: a KeyError when an author is no
\* participant and no length score was assigned to it before
MessageAnomaliesRaise(messages, agents) ==
    /\ messages # <<>>
    /\ LengthSpread(messages) = 0
    /\ ~(Authors(messages) \subseteq Range(agents))

\* the scores of _analyze_message_anomalies when it raises nothing
_analyze_message_anomalies(messages, agents) ==
    IF messages = <<>> THEN [agent \in Range(agents) |-> 0]
    ELSE [agent \in Range(agents) \cup Authors(messages) |->
            IF agent \notin Authors(messages) THEN 0
            ELSE LET count == Cardinality(MessagesOf(messages, agent))
                     length_score == IF LengthSpread(messages) > 0
                                     THEN LengthDeviationScore(messages, agent) ELSE 0
                     hesitation_ratio ==
                         (One * FeatureOf(messages, agent, "hesitation")) \div count
                 IN Max2(length_score, hesitation_ratio)]

_analyze_information_quality(messages, agents) ==
    [agent \in Range(agents) |->
        LET concrete == FeatureOf(messages, agent, "concrete")
            vague == FeatureOf(messages, agent, "vague")
            total == concrete + vague
        IN IF total = 0 THEN 0 ELSE (One * vague) \div total]

_get_rule_based_scores(messages, tool_usage, agents) ==
    LET tool_scores == _analyze_tool_usage(tool_usage, agents)
        timing_scores == _analyze_timing_patterns(messages, agents)
        message_scores == _analyze_message_anomalies(messages, agents)
        info_scores == _analyze_information_quality(messages, agents)
    IN [agent \in Range(agents) |->
               (ScoreGet(tool_scores, agent) * weights.tool_usage_anomaly
                + ScoreGet(timing_scores, agent) * weights.timing_inconsistency
                + ScoreGet(message_scores, agent) * weights.message_anomaly
                + ScoreGet(info_scores, agent) * weights.information_quality) \div One]

\* _get_llm_scores answering a failed call with zero scores
_get_llm_scores_zero(agents, rule_scores, llm_output) ==
    IF LLMUnavailable(llm_output) THEN [agent \in Range(agents) |-> 0]
    ELSE [agent \in Range(agents) |-> Max2(0, Min2(One, ScoreGet(llm_output.scores, agent)))]

\* _get_llm_scores: the clamped scores of the completion, or the rule scores
\* when the call or the parsing of its text raises
_get_llm_scores(agents, rule_scores, llm_output) ==
    IF LLMUnavailable(llm_output) THEN rule_scores
    ELSE [agent \in Range(agents) |-> Max2(0, Min2(One, ScoreGet(llm_output.scores, agent)))]

analyze_session(messages, tool_usage, agents, use_llm, llm_output) ==
    LET rule_scores == _get_rule_based_scores(messages, tool_usage, agents)
    IN IF use_llm /\ Len(messages) > 0
       THEN LET llm_scores == _get_llm_scores(agents, rule_scores, llm_output)
            IN [agent \in Range(agents) |->
                  (ScoreGet(rule_scores, agent) * rule_weight
                   + ScoreGet(llm_scores, agent) * llm_weight) \div One]
       ELSE rule_scores

\* a suggestion that is the first participant whatever the scores
suggest_mole_first(agents, suspicion_scores) == agents[1]

\* suggest_mole: the first entry of the scores sorted by score, highest first;
\* the sort is stable, so among equal scores the first participant is taken
suggest_mole(agents, suspicion_scores) ==
    LET best == MaxOf({suspicion_scores[agent] : agent \in Range(agents)})
        first == CHOOSE i \in DOMAIN agents :
                    /\ suspicion_scores[agents[i]] = best
                    /\ \A j \in 1..(i - 1) : suspicion_scores[agents[j]] # best
    IN agents[first]

\* get_detailed_analysis: the dict it returns, or the error it raises
get_detailed_analysis(messages, tool_usage, agents, use_llm, llm_output) ==
    LET tool_scores == _analyze_tool_usage(tool_usage, agents)
        timing_scores == _analyze_timing_patterns(messages, agents)
        message_scores == _analyze_message_anomalies(messages, agents)
        info_scores == _analyze_information_quality(messages, agents)
        combined_scores == analyze_session(messages, tool_usage, agents, use_llm, llm_output)
    IN IF MessageAnomaliesRaise(messages, agents) THEN [error |-> "KeyError"]
       ELSE IF agents = <<>> THEN [error |-> "IndexError"]
       ELSE LET suggested_mole == suggest_mole(agents, combined_scores)
            IN [error |-> "None",
                suggested_mole |-> suggested_mole,
                confidence |-> combined_scores[suggested_mole],
                suspicion_scores |-> combined_scores,
                score_breakdown |->
                    [agent \in Range(agents) |->
                        [tool_usage |-> ScoreGet(tool_scores, agent),
                         timing |-> ScoreGet(timing_scores, agent),
                         message_anomaly |-> ScoreGet(message_scores, agent),
                         information_quality |-> ScoreGet(info_scores, agent),
                         combined |-> ScoreGet(combined_scores, agent)]],
                analysis_weights |-> weights]

\* whether an analysis returned a result
Analyzed == detection.state = "done" /\ detection.result.error = "None"

\* one analysis of a session's messages and tool records.  History: the inputs
\* are kept next to the result
Analyze(messages, tool_usage, agents, use_llm, llm_output) ==
    /\ detection = NoAnalysis
    /\ detection' = [state |-> "done", messages |-> messages, tool_usage |-> tool_usage,
                     agents |-> agents, use_llm |-> use_llm, llm_output |-> llm_output,
                     result |-> get_detailed_analysis(messages, tool_usage, agents,
                                                      use_llm, llm_output)]
    /\ UNCHANGED <<ctlvars, now, running_sessions, loops, requests, llm_up, late_contributions>>

----------------------------------------------------------------------------
(* Bounds on the environment's calls *)

QueueLen(sid) == Len(DictGet(command_queue, sid, <<>>))

EventCount(sid) ==
    IF sid \in DOMAIN active_sessions THEN Len(active_sessions[sid].sabotage_events) ELSE 0

----------------------------------------------------------------------------
(* The registry operations called in any order on one session id *)

Next ==
    \/ Tick
    \/ \E agents \in AgentLists : StartSession("s1", agents)
    \/ PauseSession("s1")
    \/ ResumeSession("s1")
    \/ \E agent \in Range(ConfigAgents), text \in CommandTexts :
          QueueLen("s1") < MaxCommands /\ SendCommand("s1", agent, text)
    \/ \E turn \in 0..MaxTurn : UpdateTurn("s1", turn)
    \/ \E success \in BOOLEAN : CompleteSession("s1", success)
    \/ game_stats.total_games < MaxGames /\ EvaluateDetection("s1")

Spec == Init /\ [][Next]_vars

----------------------------------------------------------------------------
(* One heist of the dashboard server: the turn loop of session s1 interleaved *)
(* with the pause, resume and command requests                                *)

LoopAgentLists == {<<"planner", "hacker">>}

NextLoop ==
    \/ \E agents \in LoopAgentLists :
          "s1" \notin DOMAIN active_sessions /\ StartHeist("s1", agents)
    \/ LoopStart("s1")
    \/ WakePauseWait("s1")
    \/ WakeBroadcast("s1")
    \/ WakeAgentDelay("s1")
    \/ WakeTurnDelay("s1")
    \/ PauseSession("s1")
    \/ ResumeSession("s1")
    \/ \E agent \in Range(ConfigAgents), text \in CommandTexts :
          QueueLen("s1") < MaxLoopCommands /\ SendCommand("s1", agent, text)

SpecLoop == Init /\ [][NextLoop]_vars

----------------------------------------------------------------------------
(* One heist with stop requests: the turn loop of session s1 interleaved with *)
(* stop, pause and resume                                                     *)

NextStop ==
    \/ \E agents \in LoopAgentLists :
          "s1" \notin DOMAIN active_sessions /\ StartHeist("s1", agents)
    \/ LoopStart("s1")
    \/ WakePauseWait("s1")
    \/ WakeBroadcast("s1")
    \/ WakeAgentDelay("s1")
    \/ WakeTurnDelay("s1")
    \/ PauseSession("s1")
    \/ ResumeSession("s1")
    \/ StopHeist("s1")

SpecStop == Init /\ [][NextStop]_vars

----------------------------------------------------------------------------
(* One heist followed to the end of its loop.  The event loop runs a task    *)
(* that is ready, and wakes one whose sleep is over: weak fairness of the     *)
(* task's steps.  Pause requests arrive at successive clock readings, at most *)
(* MaxPauses of them, and a heist left paused is resumed or stopped.          *)

RequestPause(sid) ==
    /\ sid \in DOMAIN active_sessions
    /\ now < MaxPauses
    /\ now' = now + 1
    /\ pause_session(sid)
    /\ UNCHANGED <<command_queue, game_stats, first_evaluation, paused_sends, srvvars>>

Unpause(sid) == is_paused(sid) /\ (ResumeSession(sid) \/ StopHeist(sid))

NextTerm ==
    \/ \E agents \in LoopAgentLists :
          "s1" \notin DOMAIN active_sessions /\ StartHeist("s1", agents)
    \/ LoopStart("s1")
    \/ WakePauseWait("s1")
    \/ WakeBroadcast("s1")
    \/ WakeAgentDelay("s1")
    \/ WakeTurnDelay("s1")
    \/ RequestPause("s1")
    \/ ResumeSession("s1")
    \/ StopHeist("s1")

SpecTerm ==
    /\ Init
    /\ [][NextTerm]_vars
    /\ WF_vars(LoopStep("s1"))
    /\ WF_vars(Unpause("s1"))

----------------------------------------------------------------------------
(* One session run by the thread of run_heist_session, paused and resumed    *)
(* from another thread                                                       *)

NextLive ==
    \/ \E agents \in LoopAgentLists :
          "s1" \notin DOMAIN active_sessions /\ LiveStart("s1", agents)
    \/ LiveTurnStart("s1")
    \/ LiveRespond("s1")
    \/ LiveGenerate("s1")
    \/ LiveAgentDelay("s1")
    \/ LiveTurnDelay("s1")
    \/ LivePause("s1")
    \/ ResumeSession("s1")

SpecLive == Init /\ [][NextLive]_vars

----------------------------------------------------------------------------
(* One session run by the thread of run_heist_session while commands are     *)
(* sent from another thread                                                  *)

NextDeliver ==
    \/ \E agents \in LoopAgentLists :
          "s1" \notin DOMAIN active_sessions /\ DeliverStart("s1", agents)
    \/ LiveTurnStart("s1")
    \/ DeliverFetch("s1")
    \/ DeliverFind("s1")
    \/ DeliverMark("s1")
    \/ LiveGenerate("s1")
    \/ LiveAgentDelay("s1")
    \/ LiveTurnDelay("s1")
    \/ \E agent \in Range(ConfigAgents), text \in CommandTexts :
          QueueLen("s1") < MaxLoopCommands /\ SendCommand("s1", agent, text)

SpecDeliver == Init /\ [][NextDeliver]_vars

----------------------------------------------------------------------------
(* One heist whose LLM endpoint fails and recovers while the loop runs *)

NextFail ==
    \/ \E agents \in LoopAgentLists :
          "s1" \notin DOMAIN active_sessions /\ StartHeist("s1", agents)
    \/ LoopStart("s1")
    \/ WakeBroadcast("s1")
    \/ WakeAgentDelay("s1")
    \/ WakeTurnDelay("s1")
    \/ LLMFails
    \/ LLMRecovers

SpecFail == Init /\ [][NextFail]_vars

----------------------------------------------------------------------------
(* The mole game of one session: guesses, sabotage events and evaluations *)

Guesses == {"planner", "hacker"}

NextGame ==
    \/ \E agents \in AgentLists : StartSession("s1", agents)
    \/ \E agent \in Guesses : SetDetectedMole("s1", agent)
    \/ \E severity \in EventSeverities :
          EventCount("s1") < MaxEvents /\ RecordSabotageEvent("s1", "timing_error", severity)
    \/ game_stats.total_games < MaxGames /\ EvaluateDetection("s1")
    \/ \E sid \in SessionIds, agent \in Guesses : GetSabotageInstructions(sid, agent)

SpecGame == Init /\ [][NextGame]_vars

----------------------------------------------------------------------------
(* Two clients sending pause and resume requests for one started session *)

NextRace ==
    \/ \E agents \in AgentLists :
          "s1" \notin DOMAIN active_sessions /\ StartSession("s1", agents)
    \/ \E c \in Clients : \E op \in {"pause_session", "resume_session"} :
          IssueRequest(c, op, "s1")
    \/ \E c \in Clients : HandleRequest(c)
    \/ \E c \in Clients : ReplyRequest(c)

SpecRace == Init /\ [][NextRace]_vars

----------------------------------------------------------------------------
(* The command queue of one session: commands are sent and marked executed *)

MarkIndexes == (0 - MaxQueued - 1)..MaxQueued

NextQueue ==
    \/ \E agents \in AgentLists :
          "s1" \notin DOMAIN active_sessions /\ StartSession("s1", agents)
    \/ \E agent \in Range(ConfigAgents), text \in CommandTexts :
          QueueLen("s1") < MaxQueued /\ SendCommand("s1", agent, text)
    \/ \E command_index \in MarkIndexes : MarkCommandExecuted("s1", command_index)

SpecQueue == Init /\ [][NextQueue]_vars

----------------------------------------------------------------------------
(* Calls with a session id that was never started, next to a started session *)

UnknownIds == SessionIds \ {"s1"}

NextUnknown ==
    \/ \E agents \in AgentLists :
          "s1" \notin DOMAIN active_sessions /\ StartSession("s1", agents)
    \/ \E agent \in Range(ConfigAgents), text \in CommandTexts :
          QueueLen("s1") < MaxCommands /\ SendCommand("s1", agent, text)
    \/ \E sid \in UnknownIds : PauseSession(sid)
    \/ \E sid \in UnknownIds : ResumeSession(sid)
    \/ \E sid \in UnknownIds, agent \in Range(ConfigAgents), text \in CommandTexts :
          SendCommand(sid, agent, text)
    \/ \E sid \in UnknownIds, command_index \in MarkIndexes :
          MarkCommandExecuted(sid, command_index)
    \/ \E sid \in UnknownIds, turn \in 0..MaxTurn : UpdateTurn(sid, turn)
    \/ \E sid \in UnknownIds, success \in BOOLEAN : CompleteSession(sid, success)
    \/ \E sid \in UnknownIds, agent \in Guesses : SetDetectedMole(sid, agent)
    \/ \E sid \in UnknownIds, severity \in EventSeverities :
          RecordSabotageEvent(sid, "timing_error", severity)
    \/ \E sid \in UnknownIds : EvaluateDetection(sid)

SpecUnknown == Init /\ [][NextUnknown]_vars

----------------------------------------------------------------------------
(* One detection analysis, for every session data and completion outcome *)

NextDetect ==
    \E messages \in MessageLists, tool_usage \in ToolUsageLists, agents \in AgentLists,
       use_llm \in BOOLEAN, llm_output \in LLMOutputs :
          Analyze(messages, tool_usage, agents, use_llm, llm_output)

SpecDetect == Init /\ [][NextDetect]_vars

----------------------------------------------------------------------------
(* Two sessions in one controller, every session operation on either *)

\* the session that is operated on and the session that stands by
Acting == "s1"

Bystander == "s2"

NextTwo ==
    \/ Acting \notin DOMAIN active_sessions /\ StartSession(Acting, <<>>)
    \/ PauseSession(Acting)
    \/ ResumeSession(Acting)
    \/ \E text \in CommandTexts :
          QueueLen(Acting) < MaxCommands /\ SendCommand(Acting, "planner", text)
    \/ MarkCommandExecuted(Acting, 0)
    \/ \E turn \in 0..MaxTurn : UpdateTurn(Acting, turn)
    \/ \E agent \in Guesses : SetDetectedMole(Acting, agent)
    \/ game_stats.total_games < MaxGames /\ EvaluateDetection(Acting)
    \/ \E success \in BOOLEAN : CompleteSession(Acting, success)
    \/ Bystander \notin DOMAIN active_sessions /\ StartSession(Bystander, <<"planner">>)
    \/ PauseSession(Bystander)
    \/ \E text \in CommandTexts :
          QueueLen(Bystander) < MaxCommands /\ SendCommand(Bystander, "hacker", text)

SpecTwo == Init /\ [][NextTwo]_vars

----------------------------------------------------------------------------
(* The rule analysis of three participants of whom one failed both of its    *)
(* tool calls and used four vague keywords, the others none of three calls    *)
(* and one vague keyword each; the rest of what they wrote varies.            *)

ScenarioAgents == <<"planner", "hacker", "safecracker">>

ToolRecords(agent, success) ==
    [agent |-> agent, tool_name |-> "calculator", success |-> success]

ScenarioToolUsage ==
    <<ToolRecords("hacker", FALSE), ToolRecords("hacker", FALSE),
      ToolRecords("planner", TRUE), ToolRecords("planner", TRUE),
      ToolRecords("planner", TRUE),
      ToolRecords("safecracker", TRUE), ToolRecords("safecracker", TRUE),
      ToolRecords("safecracker", TRUE)>>

\* what an agent wrote: a text with its vague keywords, alone or followed by a
\* text without any
OneVague == {"maybe", "maybe wait", "maybe vault"}

FourVague == {"maybe probably might perhaps"}

NoVague == {"ok", "hmm wait"}

Written(agent, texts) ==
    {<<[agent_name |-> agent, message |-> t]>> : t \in texts}
    \cup {<<[agent_name |-> agent, message |-> t], [agent_name |-> agent, message |-> u]>> :
             t \in texts, u \in NoVague}

NextScenario ==
    \E p \in Written("planner", OneVague), h \in Written("hacker", FourVague),
       c \in Written("safecracker", OneVague) :
          Analyze(p \o h \o c, ScenarioToolUsage, ScenarioAgents, FALSE,
                  [outcome |-> "failed"])

SpecScenario == Init /\ [][NextScenario]_vars

----------------------------------------------------------------------------
(* Properties *)

StatusEdges ==
    {<<"idle", "running">>, <<"running", "paused">>, <<"paused", "running">>,
     <<"running", "completed">>, <<"running", "failed">>,
     <<"paused", "completed">>, <<"paused", "failed">>}

\* this step is a controller call on sid, and ret' is what it returned
Called(sid) ==
    /\ ret' # ret \/ active_sessions' # active_sessions
    /\ ret'.session_id = sid

\* the statuses a pause, resume or complete call asks for
TargetStatus(op) ==
    CASE op = "pause_session" -> {"paused"}
      [] op = "resume_session" -> {"running"}
      [] op = "complete_session" -> {"completed", "failed"}
      [] OTHER -> {}

\* C1: every change of a session's status is an edge of the graph idle->running,
\* running->paused, paused->running, running->{completed,failed},
\* paused->{completed,failed}; a call that asks for any other edge fails and
\* leaves the status as it was.
C1_StatusFollowsGraph ==
    [][\A sid \in SessionIds :
        LET old == StatusIn(active_sessions, sid)
            new == StatusIn(active_sessions', sid)
            targets == TargetStatus(ret'.op)
        IN /\ old # new => <<old, new>> \in StatusEdges
           /\ (Called(sid) /\ targets # {} /\ \A t \in targets : <<old, t>> \notin StatusEdges)
                 => (~ret'.success /\ new = old)]_vars

\* C2: in every reachable state is_paused(id) is true exactly when the session's
\* status is paused.
C2_PauseFlagIffPaused ==
    \A sid \in SessionIds :
        is_paused(sid) <=> (StatusIn(active_sessions, sid) = "paused")

Context(sid) == loops[sid].conversation_context

IsPrefix(s, t) == Len(s) <= Len(t) /\ \A i \in 1..Len(s) : t[i] = s[i]

\* C3: a queued command is injected into at most one agent turn, its executed flag
\* only goes from false to true, and a command that is marked executed is never
\* injected again.
C3_AtMostOnceDelivery ==
    [][\A sid \in (DOMAIN loops) \cap (DOMAIN command_queue) :
        LET queue == command_queue[sid]
            queue2 == command_queue'[sid]
            ctx == loops[sid].conversation_context
            ctx2 == loops'[sid].conversation_context
        IN /\ \A k \in 1..Len(queue) :
                queue[k].executed => (k <= Len(queue2) /\ queue2[k].executed)
           /\ Len(ctx2) > Len(ctx) =>
                LET e == ctx2[Len(ctx2)]
                IN e.command # 0 =>
                     /\ ~queue[e.command].executed
                     /\ queue2[e.command].executed
                     /\ queue[e.command].agent = e.agent
                     /\ \A i \in 1..Len(ctx) : ctx[i].command # e.command]_vars

\* an agent got a command in one turn and took a later turn without it
C3_Witness ==
    \E sid \in DOMAIN loops :
        \E i, j \in 1..Len(Context(sid)) :
            /\ i < j
            /\ Context(sid)[i].agent = Context(sid)[j].agent
            /\ Context(sid)[i].command # 0
            /\ Context(sid)[j].command = 0
            /\ command_queue[sid][Context(sid)[i].command].executed
            /\ \E k \in 1..Len(command_queue[sid]) : ~command_queue[sid][k].executed

RequiredStatus(op) == IF op = "pause_session" THEN "running" ELSE "paused"

RejectError(op) ==
    IF op = "pause_session" THEN "Session is not running" ELSE "Session is not paused"

\* two requests of the same kind, sent at the status the call needs, in flight together
Racing(c, d) ==
    /\ requests[c].state = "done" /\ requests[d].state = "done"
    /\ requests[c].raced /\ requests[d].raced
    /\ requests[c].op = requests[d].op
    /\ requests[c].session_id = requests[d].session_id
    /\ requests[c].seen = RequiredStatus(requests[c].op)
    /\ requests[d].seen = RequiredStatus(requests[d].op)

\* C4: of two pause requests in flight together on a running session (or two resume
\* requests on a paused one) exactly one succeeds and the other is rejected as an
\* invalid transition, and in no state between the calls do status and pause flag
\* disagree.
C4_PauseResumeSerialized ==
    /\ \A sid \in SessionIds :
          is_paused(sid) <=> (StatusIn(active_sessions, sid) = "paused")
    /\ \A c \in Clients :
          LET d == OtherClient(c)
          IN Racing(c, d) =>
               /\ requests[c].success # requests[d].success
               /\ ~requests[c].success => requests[c].error = RejectError(requests[c].op)

\* two pause requests raced on a running session and both were answered
C4_Witness ==
    \E c \in Clients :
        /\ Racing(c, OtherClient(c))
        /\ requests[c].op = "pause_session"
        /\ requests[c].success
        /\ StatusIn(active_sessions, requests[c].session_id) = "paused"

\* how often command k is in the list get_pending_commands returns
PendingCount(sid, agent, k) ==
    LET pending == get_pending_commands(sid, agent)
    IN Cardinality({i \in 1..Len(pending) : pending[i] = k})

\* C5: while the session is paused the queue is only appended to and no agent turn
\* consumes a command or contributes; a command queued while paused is pending
\* exactly once until it is delivered; and an agent's turn that is not paused
\* injects the agent's earliest undelivered command.
C5_PausedCommandsKept ==
    [][\A sid \in (DOMAIN loops) \cap (DOMAIN command_queue) :
        LET queue == command_queue[sid]
            queue2 == command_queue'[sid]
            ctx == loops[sid].conversation_context
            ctx2 == loops'[sid].conversation_context
        IN /\ (is_paused(sid) \/ DictGet(pause_flags', sid, FALSE)) =>
                (IsPrefix(queue, queue2) /\ ctx2 = ctx)
           /\ \A p \in paused_sends :
                (p[1] = sid /\ ~queue[p[2]].executed) =>
                    PendingCount(sid, queue[p[2]].agent, p[2]) = 1
           /\ Len(ctx2) > Len(ctx) =>
                LET e == ctx2[Len(ctx2)]
                    pending == get_pending_commands(sid, e.agent)
                IN IF pending = <<>> THEN e.command = 0
                   ELSE e.command = pending[1] /\ queue2[pending[1]].executed]_vars

\* hacker's first turn was attempted while paused and contributed nothing, and a
\* command queued for hacker while paused was injected into hacker's second turn
C5_Witness ==
    \E sid \in DOMAIN loops :
        \E i \in 1..Len(Context(sid)) :
            LET e == Context(sid)[i]
            IN /\ e.agent = "hacker" /\ e.turn = 2
               /\ <<sid, e.command>> \in paused_sends
               /\ command_queue[sid][e.command].agent = "hacker"
               /\ \A j \in 1..Len(Context(sid)) :
                     ~(Context(sid)[j].agent = "hacker" /\ Context(sid)[j].turn = 1)

\* the agent slots the loop has gone past: whole turns, and agents of this turn
Passed(loop) == IF loop.turn = 0 THEN 0 ELSE (loop.turn - 1) * Len(loop.agents) + loop.idx

\* C6: no agent turn is generated while the pause flag is set, and while it is set
\* the runner waits: it goes past no agent's turn.
C6_RunnerWaitsWhilePaused ==
    [][\A sid \in DOMAIN loops :
        is_paused(sid) =>
            /\ loops'[sid].conversation_context = loops[sid].conversation_context
            /\ Passed(loops'[sid]) = Passed(loops[sid])]_vars

\* C7: the contributions of a session are those of the turns in order, every agent
\* once per turn in configured order: whatever the loop has gone past has contributed.
C7_EveryAgentEveryTurn ==
    \A sid \in DOMAIN loops :
        LET loop == loops[sid]
            n == Len(loop.agents)
            ctx == loop.conversation_context
        IN /\ Len(ctx) = Passed(loop)
           /\ \A k \in 1..Len(ctx) :
                /\ ctx[k].turn = ((k - 1) \div n) + 1
                /\ ctx[k].agent = loop.agents[((k - 1) % n) + 1]

\* C8: every evaluate_detection of a session returns the outcome, actual mole and
\* guess that the first one returned.
C8_EvaluateFrozen ==
    (ret.op = "evaluate_detection" /\ ret.success
        /\ ret.session_id \in DOMAIN first_evaluation) =>
        LET first == first_evaluation[ret.session_id]
        IN /\ ret.outcome = first.outcome
           /\ ret.actual_mole = first.actual_mole
           /\ ret.detected_mole = first.detected_mole

EndTimeIn(sessions, sid) == IF sid \in DOMAIN sessions THEN sessions[sid].end_time ELSE NoTime

\* C9: complete_session succeeds only from running or paused, and on a completed
\* or failed session complete, pause and resume fail and leave status and end
\* time as they were.
C9_CompleteIsTerminal ==
    [][\A sid \in SessionIds :
        LET old == StatusIn(active_sessions, sid)
        IN (Called(sid) /\ ret'.op \in {"complete_session", "pause_session", "resume_session"}) =>
             /\ (ret'.op = "complete_session" /\ ret'.success) => old \in {"running", "paused"}
             /\ old \in {"completed", "failed"} =>
                  /\ ~ret'.success
                  /\ StatusIn(active_sessions', sid) = old
                  /\ EndTimeIn(active_sessions', sid) = EndTimeIn(active_sessions, sid)]_vars

\* C10: start_session with an id that exists fails and leaves the session, its
\* queue and its pause flag as they were.
C10_DuplicateStartRejected ==
    [][\A sid \in DOMAIN active_sessions :
        (Called(sid) /\ ret'.op = "start_session") =>
            /\ ~ret'.success
            /\ active_sessions'[sid] = active_sessions[sid]
            /\ command_queue'[sid] = command_queue[sid]
            /\ pause_flags'[sid] = pause_flags[sid]]_vars

\* C11: pause_session succeeds exactly when the status is running and
\* resume_session exactly when it is paused; a rejected pause or resume returns a
\* failure and leaves the sessions (status, turn counter), the pause flags and
\* the command queues as they were.
C11_RejectedPauseResumeNoChange ==
    [][\A sid \in SessionIds :
        (Called(sid) /\ ret'.op \in {"pause_session", "resume_session"}) =>
            LET old == StatusIn(active_sessions, sid)
            IN /\ ret'.success <=> (old = RequiredStatus(ret'.op))
               /\ ~ret'.success =>
                    /\ active_sessions' = active_sessions
                    /\ pause_flags' = pause_flags
                    /\ command_queue' = command_queue
               /\ ret'.success =>
                    /\ StatusIn(active_sessions', sid) # old
                    /\ pause_flags'[sid] = (ret'.op = "pause_session")]_vars

\* a pause was rejected on a paused session that has a turn count and a queued command
C11_Witness ==
    /\ ret.op = "pause_session" /\ ~ret.success
    /\ ret.error = "Session is not running"
    /\ StatusIn(active_sessions, "s1") = "paused"
    /\ is_paused("s1")
    /\ active_sessions["s1"].current_turn > 0
    /\ QueueLen("s1") > 0

\* C12: update_turn never lowers the stored turn of a session.
C12_TurnMonotonic ==
    [][\A sid \in DOMAIN active_sessions :
        (Called(sid) /\ ret'.op = "update_turn") =>
            active_sessions'[sid].current_turn >= active_sessions[sid].current_turn]_vars

\* C13: a queued command is in get_pending_commands(sid, A) exactly once while it
\* is for agent A and not marked executed, and not at all once it is marked or
\* when A is another agent; a mark is never taken back.
C13_PendingOnceForOwner ==
    [][\A sid \in (DOMAIN command_queue) \cap (DOMAIN command_queue') :
        LET queue == command_queue[sid]
            queue2 == command_queue'[sid]
        IN /\ \A k \in 1..Len(queue) :
                queue[k].executed => (k <= Len(queue2) /\ queue2[k].executed)
           /\ \A k \in 1..Len(queue2) : \A agent \in Range(ConfigAgents) :
                LET pending == get_pending_commands(sid, agent)'
                    count == Cardinality({i \in 1..Len(pending) : pending[i] = k})
                IN count = IF queue2[k].agent = agent /\ ~queue2[k].executed
                           THEN 1 ELSE 0]_vars

\* one command is marked executed and a command of each agent is still pending
C13_Witness ==
    /\ "s1" \in DOMAIN command_queue
    /\ ret.op = "mark_command_executed" /\ ret.success
    /\ \E k, j \in 1..QueueLen("s1") :
          /\ command_queue["s1"][k].executed
          /\ ~command_queue["s1"][j].executed
          /\ command_queue["s1"][k].agent = command_queue["s1"][j].agent

\* the queue positions of the commands that are not marked executed, in queue order
Undelivered(sid) ==
    LET commands == DictGet(command_queue, sid, <<>>)
    IN SelectSeq([i \in 1..Len(commands) |-> i], LAMBDA i : ~commands[i].executed)

\* C14: get_pending_commands without an agent returns the commands that are not
\* marked executed, in the order they were sent.
C14_UnfilteredPendingUndelivered ==
    \A sid \in DOMAIN command_queue :
        get_pending_commands(sid, "None") = Undelivered(sid)

C16_MarkOutOfRangeRejected ==
    [][ret'.op = "mark_command_executed" =>
        LET sid == ret'.session_id
            command_index == ret'.command_index
            queue == DictGet(command_queue, sid, <<>>)
            queue2 == DictGet(command_queue', sid, <<>>)
        IN IF command_index \in 0..(Len(queue) - 1)
           THEN /\ ret'.success
                /\ queue2 = [queue EXCEPT ![command_index + 1].executed = TRUE]
           ELSE /\ ~ret'.success
                /\ queue2 = queue]_vars

\* C17: a session started with fewer than two agents has no mole, its start
\* reports none selected and no agent gets sabotage instructions; a session of
\* two or more agents has one of its agents as the mole.
C17_NoMoleUnderTwoAgents ==
    /\ \A sid \in DOMAIN active_sessions :
          LET session == active_sessions[sid]
          IN IF Len(session.agents) < 2
             THEN /\ session.mole = "None"
                  /\ \A agent \in Range(ConfigAgents) :
                        get_sabotage_instructions(sid, agent) = "None"
             ELSE session.mole \in Range(session.agents)
    /\ (ret.op = "start_session" /\ ret.session_id \in DOMAIN active_sessions) =>
          (ret.mole_selected <=> Len(active_sessions[ret.session_id].agents) >= 2)

\* C18: the mole and the sabotage pattern of a session are the same in every
\* later state.
C18_MoleImmutable ==
    [][\A sid \in DOMAIN active_sessions :
        /\ active_sessions'[sid].mole = active_sessions[sid].mole
        /\ active_sessions'[sid].sabotage_pattern = active_sessions[sid].sabotage_pattern]_vars

\* the contributions of the session's loop that carry sabotage instructions
Injections(sid) ==
    {i \in 1..Len(Context(sid)) : Context(sid)[i].instructions # "None"}

\* the contributions of the session's loop made by the agent
ContributionsOf(sid, agent) ==
    {i \in 1..Len(Context(sid)) : Context(sid)[i].agent = agent}

\* C19: over one run of the loop the sabotage instructions are injected into at
\* most one turn; that turn is the mole's, it carries the text of the session's
\* pattern, and it is the first turn the mole generated.
C19_InstructionsInjectedOnce ==
    \A sid \in (DOMAIN loops) \cap (DOMAIN active_sessions) :
        LET mole == active_sessions[sid].mole
            pattern == active_sessions[sid].sabotage_pattern
        IN /\ Cardinality(Injections(sid)) <= 1
           /\ \A i \in Injections(sid) :
                /\ Context(sid)[i].agent = mole
                /\ Context(sid)[i].instructions = sabotage_patterns[pattern].instructions
                /\ \A j \in ContributionsOf(sid, mole) : i <= j
           /\ ContributionsOf(sid, mole) # {} => Injections(sid) # {}

\* the mole generated two turns: the first carries the instructions, the second does not
C19_Witness ==
    \E sid \in (DOMAIN loops) \cap (DOMAIN active_sessions) :
        \E i, j \in ContributionsOf(sid, active_sessions[sid].mole) :
            /\ i < j
            /\ Context(sid)[i].instructions # "None"
            /\ Context(sid)[j].instructions = "None"

\* the text get_sabotage_instructions is to return for an agent of a session
AssignedInstructions(sessions, sid, agent) ==
    IF sid \in DOMAIN sessions /\ sessions[sid].mole = agent
          /\ sessions[sid].sabotage_pattern \in SabotagePattern
    THEN sabotage_patterns[sessions[sid].sabotage_pattern].instructions
    ELSE "None"

\* C20: get_sabotage_instructions returns the instructions of the session's
\* pattern to the mole and None to every other agent and for an unknown session;
\* it writes nothing, and a repeated call returns the same text.
C20_InstructionsPureLookup ==
    [][ret'.op = "get_sabotage_instructions" =>
        /\ ret'.instructions = AssignedInstructions(active_sessions, ret'.session_id, ret'.agent)
        /\ UNCHANGED <<active_sessions, command_queue, pause_flags, game_stats>>
        /\ (ret.op = "get_sabotage_instructions" /\ ret.session_id = ret'.session_id
               /\ ret.agent = ret'.agent) => ret'.instructions = ret.instructions]_vars

\* the mole of a two-agent session with a guess on record was given its instructions
C20_Witness ==
    /\ ret.op = "get_sabotage_instructions"
    /\ ret.session_id \in DOMAIN active_sessions
    /\ ret.agent = active_sessions[ret.session_id].mole
    /\ ret.instructions # "None"
    /\ Len(active_sessions[ret.session_id].agents) = 2
    /\ active_sessions[ret.session_id].detected_mole # "None"

\* C21: once the run flag of a session is false (stop requested, or the loop has
\* ended) the loop of the session makes no further agent turn: no contribution
\* is added and no agent slot is gone past, whatever the loop was doing,
\* start-up included.
C21_StopEndsLoop ==
    [][\A sid \in (DOMAIN loops) \cap (DOMAIN running_sessions) :
        ~running_sessions[sid] =>
            /\ loops'[sid].conversation_context = loops[sid].conversation_context
            /\ Passed(loops'[sid]) = Passed(loops[sid])]_vars

\* C22: an agent turn whose completion call fails adds the error text as the
\* agent's contribution and the loop goes on: the contributions are those of
\* every agent in every turn, in order, and the loop ends only after NumTurns
\* full turns.
C22_FailureDoesNotAbort ==
    [][\A sid \in DOMAIN loops :
        LET loop == loops[sid]
            loop2 == loops'[sid]
            n == Len(loop2.agents)
            ctx == loop.conversation_context
            ctx2 == loop2.conversation_context
        IN /\ Passed(loop2) > Passed(loop) =>
                /\ Len(ctx2) = Len(ctx) + 1
                /\ ctx2[Len(ctx2)].message = IF llm_up THEN "generated" ELSE "error"
                /\ loop2.pc # "done"
           /\ Len(ctx2) = Passed(loop2)
           /\ \A k \in 1..Len(ctx2) :
                /\ ctx2[k].turn = ((k - 1) \div n) + 1
                /\ ctx2[k].agent = loop2.agents[((k - 1) % n) + 1]
           /\ loop2.pc = "done" => Len(ctx2) = NumTurns * n]_vars

\* the first agent's first turn failed, the next agent generated its turn, and the
\* loop ran to its end
C22_Witness ==
    \E sid \in DOMAIN loops :
        /\ loops[sid].pc = "done"
        /\ Len(Context(sid)) = NumTurns * Len(loops[sid].agents)
        /\ Context(sid)[1].message = "error"
        /\ Context(sid)[2].message = "generated"

\* C23: after the first evaluate_detection of a session, set_detected_mole does
\* not change the session's recorded guess.
C23_GuessFrozenAfterEvaluate ==
    [][\A sid \in DOMAIN first_evaluation :
        (Called(sid) /\ ret'.op = "set_detected_mole") =>
            active_sessions'[sid].detected_mole = active_sessions[sid].detected_mole]_vars

\* C24: for a session with a mole, evaluate_detection returns busted when no
\* guess is recorded, success when the guess is the mole and failure otherwise,
\* with actual_mole the session's mole and detected_mole the recorded guess.
C24_ClassificationRule ==
    (ret.op = "evaluate_detection" /\ ret.success
        /\ active_sessions[ret.session_id].mole # "None") =>
        LET session == active_sessions[ret.session_id]
        IN /\ ret.actual_mole = session.mole
           /\ ret.detected_mole = session.detected_mole
           /\ session.detected_mole = "None" => ret.outcome = "busted"
           /\ (session.detected_mole # "None" /\ session.detected_mole = session.mole)
                 => ret.outcome = "success"
           /\ (session.detected_mole # "None" /\ session.detected_mole # session.mole)
                 => ret.outcome = "failure"
           /\ session.game_outcome = ret.outcome

\* the guess of a two-agent session named its mole and the evaluation says success
C24_Witness ==
    /\ ret.op = "evaluate_detection" /\ ret.success
    /\ ret.outcome = "success"
    /\ ret.detected_mole = ret.actual_mole
    /\ ret.actual_mole \in Range(active_sessions[ret.session_id].agents)
    /\ Len(active_sessions[ret.session_id].agents) = 2

\* the sum of the severities of the first n events
RECURSIVE SeverityOfFirst(_, _)
SeverityOfFirst(events, n) ==
    IF n = 0 THEN 0 ELSE SeverityOfFirst(events, n - 1) + events[n].severity

\* C25: two evaluations of a session with the same guess and mole return the same
\* outcome whatever sabotage events were recorded between them, and the
\* sabotage_score returned is the sum of the severities of the recorded events.
C25_ClassificationIgnoresEvents ==
    (ret.op = "evaluate_detection" /\ ret.success
        /\ ret.session_id \in DOMAIN first_evaluation) =>
        LET first == first_evaluation[ret.session_id]
            events == active_sessions[ret.session_id].sabotage_events
        IN /\ (first.detected_mole = ret.detected_mole /\ first.actual_mole = ret.actual_mole)
                 => ret.outcome = first.outcome
           /\ ret.sabotage_score = SeverityOfFirst(events, Len(events))

\* the session was evaluated without events and again, same guess and mole, with
\* two events on record
C25_Witness ==
    /\ ret.op = "evaluate_detection" /\ ret.success
    /\ ret.session_id \in DOMAIN first_evaluation
    /\ first_evaluation[ret.session_id].detected_mole = ret.detected_mole
    /\ first_evaluation[ret.session_id].actual_mole = ret.actual_mole
    /\ ret.actual_mole # "None"
    /\ first_evaluation[ret.session_id].sabotage_score = 0
    /\ Len(active_sessions[ret.session_id].sabotage_events) = 2
    /\ ret.sabotage_score > 0

ControlOps ==
    {"pause_session", "resume_session", "send_command", "mark_command_executed",
     "update_turn", "complete_session", "set_detected_mole", "record_sabotage_event",
     "evaluate_detection"}

\* C26: a control operation called with a session id that is not registered
\* returns success False with the error "Session not found" and leaves the
\* sessions, the queues, the pause flags and the statistics as they were.
C26_UnknownSessionNotFound ==
    [][\A sid \in SessionIds \ DOMAIN active_sessions :
        (Called(sid) /\ ret'.op \in ControlOps) =>
            /\ ~ret'.success
            /\ ret'.error = "Session not found"
            /\ UNCHANGED <<active_sessions, command_queue, pause_flags, game_stats>>]_vars

\* a command for an unknown session was refused while a started session has a
\* command queued
C26_Witness ==
    /\ ret.op = "send_command" /\ ~ret.success
    /\ ret.error = "Session not found"
    /\ ret.session_id \notin DOMAIN active_sessions
    /\ ret.session_id \notin DOMAIN command_queue
    /\ "s1" \in DOMAIN active_sessions
    /\ QueueLen("s1") > 0

\* the agents, messages and completion outcome of the analysis that ran
DetAgents == Range(detection.agents)

\* the completion call of the analysis that ran was issued: fusion is enabled,
\* there are messages and the rule analysis returned
FusionAttempted ==
    /\ detection.state = "done"
    /\ detection.use_llm
    /\ detection.messages # <<>>
    /\ ~MessageAnomaliesRaise(detection.messages, detection.agents)

\* C27: every per-signal score and every final per-agent score of a returned
\* analysis lies in [0,1], also when an agent's messages hold more hesitation
\* markers than messages.
C27_ScoresInUnitInterval ==
    Analyzed =>
        \A agent \in DetAgents :
            /\ detection.result.suspicion_scores[agent] \in 0..One
            /\ \A signal \in {"tool_usage", "timing", "message_anomaly",
                              "information_quality", "combined"} :
                  detection.result.score_breakdown[agent][signal] \in 0..One

\* C28: the suggested agent of a returned analysis is a participant whose final
\* score is maximal among the participants, and the confidence is that score.
C28_SuggestedIsArgmax ==
    Analyzed =>
        /\ detection.result.suggested_mole \in DetAgents
        /\ \A agent \in DetAgents :
              detection.result.suspicion_scores[agent]
                 <= detection.result.suspicion_scores[detection.result.suggested_mole]
        /\ detection.result.confidence
              = detection.result.suspicion_scores[detection.result.suggested_mole]

\* an analysis of two participants suggested the second one, whose score is
\* strictly the highest
C28_Witness ==
    /\ Analyzed
    /\ detection.agents = <<"planner", "hacker">>
    /\ detection.result.suggested_mole = "hacker"
    /\ detection.result.suspicion_scores["hacker"]
          > detection.result.suspicion_scores["planner"]
    /\ detection.result.confidence > 0

\* C29: when fusion is enabled and the completion call fails or its text cannot
\* be parsed, the analysis raises nothing because of it and every agent's final
\* score is its rule score.
C29_FallbackToRuleScores ==
    (FusionAttempted /\ LLMUnavailable(detection.llm_output)) =>
        /\ analyze_session(detection.messages, detection.tool_usage, detection.agents,
                           detection.use_llm, detection.llm_output)
              = _get_rule_based_scores(detection.messages, detection.tool_usage,
                                       detection.agents)
        /\ detection.agents # <<>> =>
              /\ detection.result.error = "None"
              /\ detection.result.suspicion_scores
                    = _get_rule_based_scores(detection.messages, detection.tool_usage,
                                             detection.agents)

\* the completion call of an analysis failed and the analysis returned a
\* positive rule score as an agent's final score
C29_Witness ==
    /\ FusionAttempted
    /\ detection.llm_output.outcome = "failed"
    /\ Analyzed
    /\ \E agent \in DetAgents :
          /\ detection.result.suspicion_scores[agent] > 0
          /\ detection.result.suspicion_scores[agent]
                = _get_rule_based_scores(detection.messages, detection.tool_usage,
                                         detection.agents)[agent]

\* C30: a returned analysis carries a boolean degraded flag, true exactly when
\* fusion was enabled and the completion was unavailable.
C30_DegradedFlag ==
    Analyzed =>
        /\ "degraded" \in DOMAIN detection.result
        /\ detection.result.degraded
              = (FusionAttempted /\ LLMUnavailable(detection.llm_output))

\* the number of an agent's failed tool calls and of all its tool calls
ToolFailures(tool_usage, agent) ==
    Cardinality({i \in DOMAIN tool_usage :
                    tool_usage[i].agent = agent /\ ~tool_usage[i].success})

ToolCalls(tool_usage, agent) ==
    Cardinality({i \in DOMAIN tool_usage : tool_usage[i].agent = agent})

\* C31: with participants planner, hacker and safecracker, hacker failing 2 of 2
\* tool calls and the others 0 of 3, and hacker writing 4 vague keywords and
\* the others 1 each, hacker's rule score is strictly greater than planner's
\* and safecracker's whatever else the messages contain.
C31_HackerScoresHighest ==
    (/\ Analyzed
     /\ detection.agents = ScenarioAgents
     /\ ~detection.use_llm
     /\ ToolCalls(detection.tool_usage, "hacker") = 2
     /\ ToolFailures(detection.tool_usage, "hacker") = 2
     /\ FeatureOf(detection.messages, "hacker", "vague") = 4
     /\ \A agent \in {"planner", "safecracker"} :
           /\ ToolCalls(detection.tool_usage, agent) = 3
           /\ ToolFailures(detection.tool_usage, agent) = 0
           /\ FeatureOf(detection.messages, agent, "vague") = 1)
    => \A agent \in {"planner", "safecracker"} :
          detection.result.suspicion_scores["hacker"]
             > detection.result.suspicion_scores[agent]

\* C32: a start of a session with two or more agents can assign every agent as
\* mole together with every one of the five sabotage patterns, and assigns
\* nothing else.
C32_EveryAssignmentPossible ==
    /\ Cardinality(SabotagePattern) = 5
    /\ \A sid \in SessionIds, agents \in AgentLists :
          Len(agents) >= 2 =>
             \A mole \in Range(agents), pattern \in SabotagePattern :
                ENABLED (/\ StartSession(sid, agents)
                         /\ active_sessions'[sid].mole = mole
                         /\ active_sessions'[sid].sabotage_pattern = pattern)
    /\ \A sid \in DOMAIN active_sessions :
          Len(active_sessions[sid].agents) >= 2 =>
             /\ active_sessions[sid].mole \in Range(active_sessions[sid].agents)
             /\ active_sessions[sid].sabotage_pattern \in SabotagePattern

\* a session of two agents was started with its second agent as mole and the
\* last pattern of the catalog
C32_Witness ==
    /\ ret.op = "start_session"
    /\ ret.success
    /\ active_sessions[ret.session_id].agents = <<"planner", "hacker">>
    /\ active_sessions[ret.session_id].mole = "hacker"
    /\ active_sessions[ret.session_id].sabotage_pattern = "wrong_tools"
    /\ ret.sabotage_pattern = "wrong_tools"

\* the status, pause flag, turn, command queue, mole, guess and outcome of a session
SessionState(sessions, queues, flags, sid) ==
    [status |-> sessions[sid].status,
     pause_flag |-> flags[sid],
     current_turn |-> sessions[sid].current_turn,
     commands |-> queues[sid],
     mole |-> sessions[sid].mole,
     sabotage_pattern |-> sessions[sid].sabotage_pattern,
     detected_mole |-> sessions[sid].detected_mole,
     game_outcome |-> sessions[sid].game_outcome]

\* C33: an operation on one session leaves the status, pause flag, turn, command
\* queue, mole, guess and outcome of every other session unchanged.
C33_SessionsIndependent ==
    [][\A other \in DOMAIN active_sessions :
          other # ret'.session_id =>
             /\ other \in DOMAIN active_sessions'
             /\ other \in DOMAIN command_queue'
             /\ other \in DOMAIN pause_flags'
             /\ SessionState(active_sessions', command_queue', pause_flags', other)
                   = SessionState(active_sessions, command_queue, pause_flags, other)]_vars

\* the acting session was paused, given a command and a guess, evaluated and
\* completed while the other session is paused with a command queued
C33_Witness ==
    /\ DOMAIN active_sessions = {Acting, Bystander}
    /\ ret.op = "complete_session" /\ ret.success /\ ret.session_id = Acting
    /\ pause_flags[Acting]
    /\ Len(command_queue[Acting]) = 1 /\ command_queue[Acting][1].executed
    /\ active_sessions[Acting].current_turn = 1
    /\ active_sessions[Acting].detected_mole = "hacker"
    /\ active_sessions[Acting].game_outcome # "None"
    /\ active_sessions[Bystander].status = "paused"
    /\ pause_flags[Bystander]
    /\ Len(command_queue[Bystander]) = 1 /\ ~command_queue[Bystander][1].executed
    /\ active_sessions[Bystander].mole = "planner"

\* get_all_active_sessions: the sessions whose status is running or paused
get_all_active_sessions ==
    {sid \in DOMAIN active_sessions : active_sessions[sid].status \in {"running", "paused"}}

\* C34: when the loop of a heist has ended, the session's status eventually
\* becomes completed or failed and get_all_active_sessions no longer returns it.
C34_EndedLoopCompletesSession ==
    LoopAt("s1", "done") ~>
        (/\ StatusIn(active_sessions, "s1") \in {"completed", "failed"}
         /\ "s1" \notin get_all_active_sessions)

WithMole(sessions, sid, mole) == [sessions EXCEPT ![sid].mole = mole]

\* C35: while a session has not been evaluated, get_mole_status and
\* get_session_status return the same for it whichever of its agents is the mole.
C35_ReadsHideMole ==
    \A sid \in DOMAIN active_sessions :
        (active_sessions[sid].game_outcome = "None" /\ active_sessions[sid].mole # "None") =>
            \A mole \in Range(active_sessions[sid].agents) :
                /\ get_mole_status(WithMole(active_sessions, sid, mole), sid)
                      = get_mole_status(active_sessions, sid)
                /\ get_session_status(WithMole(active_sessions, sid, mole), sid)
                      = get_session_status(active_sessions, sid)

\* C36: between a successful pause of a session and the next successful resume
\* at most one contribution is generated for it, one whose pause check had
\* passed before the pause.
C36_PauseWithinOneContribution ==
    \A sid \in DOMAIN active_sessions :
        /\ LateContributions(sid) <= 1
        /\ (LateContributions(sid) = 1 /\ LoopAt(sid, "generating")) => ~is_paused(sid)

\* a session was paused while an agent's completion was in flight, and that
\* contribution was generated with the flag set; the next agent got the notice
C36_Witness ==
    /\ is_paused("s1")
    /\ LateContributions("s1") = 1
    /\ Len(Context("s1")) = 2
    /\ Context("s1")[1].message = "generated"
    /\ Context("s1")[2].message = "[PAUSED]"

\* the queue positions of the commands injected into a contribution of the
\* session, appended or in flight
InjectedPositions(sid) ==
    {Context(sid)[i].command : i \in 1..Len(Context(sid))}
    \cup {loops[sid].inflight.command}

\* C38: with send_command interleaved with the steps of a delivery, the command
\* a delivery marks executed is the one whose text it injected, for the agent
\* it was sent to, and every executed command was injected.
C38_MarkedIsInjected ==
    [][\A sid \in (DOMAIN loops) \cap (DOMAIN command_queue) :
          \A pos \in 1..Len(command_queue[sid]) :
             /\ (~command_queue[sid][pos].executed /\ command_queue'[sid][pos].executed) =>
                   /\ pos = loops[sid].inflight.command
                   /\ command_queue[sid][pos].command = loops[sid].command.command
                   /\ command_queue[sid][pos].agent = loops[sid].inflight.agent
             /\ command_queue'[sid][pos].executed => pos \in InjectedPositions(sid)']_vars

\* a delivery marked the command it had fetched as the agent's only pending one
\* although another command for the agent was appended before the mark
C38_Witness ==
    /\ LoopAt("s1", "generating")
    /\ Len(loops["s1"].pending) = 1
    /\ loops["s1"].found = loops["s1"].pending[1] - 1
    /\ command_queue["s1"][loops["s1"].pending[1]].executed
    /\ Len(get_pending_commands("s1", loops["s1"].inflight.agent)) = 1
    /\ loops["s1"].inflight.command = loops["s1"].pending[1]

\* C39: total_games equals the number of sessions that have a game outcome,
\* however often evaluate_detection ran on a session.
C39_TotalGamesCountsSessions ==
    game_stats.total_games =
        Cardinality({sid \in DOMAIN active_sessions :
                        active_sessions[sid].game_outcome # "None"})

====
